---- MODULE Spec2Model ----
(***************************************************************************)
(* The installed-state database and install engine of apk-tools            *)
(* (src/src/database.c) over the intrusive lists of src/src/apk_defines.h. *)
(*                                                                         *)
(* Pointers are indices: a directory, file, package or name pointer is its *)
(* index in the sequence of allocated objects, NULL is 0 and LIST_END is   *)
(* the sentinel of apk_defines.h.  A `struct hlist_node **' is a slot      *)
(* [h, k]: the `first' field of list head k (h = TRUE) or the `next' field *)
(* of file k's node (h = FALSE).  A path is the sequence of its            *)
(* '/'-separated components, so "usr/bin/foo" is <<"usr","bin","foo">>,    *)
(* the root directory "" is <<>> and a trailing '/' is a trailing empty    *)
(* component.  File contents are identified by their checksum.             *)
(***************************************************************************)
EXTENDS Integers, Sequences, FiniteSets, TLC

VARIABLES
    dirs,                \* installed.dirs: the interned struct apk_db_dir
    files,               \* every allocated struct apk_db_file
    pkgs,                \* every allocated struct apk_package
    names,               \* available.names: the interned struct apk_name
    available_packages,  \* available.packages: the packages in the hash
    installed_packages,  \* installed.packages: the list, in order
    stats,               \* installed.stats: packages, dirs, files
    pkg_id,              \* db->pkg_id
    num_repos,           \* db->num_repos
    repos,               \* db->repos: the url of every slot
    protected_paths,     \* db->protected_paths
    disk,                \* regular files below the root: path -> content
    fsdirs,              \* directories below the root: dirname -> metadata
    installed_file,      \* var/lib/apk/installed: its lines
    scripts_file,        \* var/lib/apk/scripts: its cells
    takeovers,           \* history: the directory of every file that was
                         \* given an owner while it still had one
    list_nodes,          \* struct list_head: installed.packages and the
                         \* installed_pkgs_list node of every package slot
    log,                 \* what the last operation did, in order
    last,                \* the last operation, its arguments and result
    nops                 \* operations run so far

vars == <<dirs, files, pkgs, names, available_packages, installed_packages,
          stats, pkg_id, num_repos, repos, protected_paths, disk, fsdirs,
          installed_file, scripts_file, takeovers, list_nodes, log, last,
          nops>>

NULL == 0
LIST_END == -1
bad_checksum == 0
APK_MAX_REPOS == 2

\* Operations after apk_db_open in one run.
MaxOps == 3

(***************************************************************************)
(* The database as one value, for the operators that transform it.         *)
(***************************************************************************)
Db ==
    [dirs |-> dirs, files |-> files, pkgs |-> pkgs, names |-> names,
     available_packages |-> available_packages,
     installed_packages |-> installed_packages, stats |-> stats,
     pkg_id |-> pkg_id, num_repos |-> num_repos, repos |-> repos,
     protected_paths |-> protected_paths, disk |-> disk, fsdirs |-> fsdirs,
     installed_file |-> installed_file, scripts_file |-> scripts_file,
     takeovers |-> takeovers, log |-> <<>>]

Emit(s, e) == [s EXCEPT !.log = Append(@, e)]

(***************************************************************************)
(* apk_defines.h: hlist.  l is "pkg" for the list threaded through         *)
(* pkg_files_list under pkg->owned_files, "dir" for the list threaded      *)
(* through dir_files_list under dir->files.                                *)
(***************************************************************************)
HeadSlot(k) == [h |-> TRUE, k |-> k]
NextSlot(n) == [h |-> FALSE, k |-> n]
NoSlot == [h |-> FALSE, k |-> NULL]

Load(s, l, pp) ==
    IF pp.h
    THEN (IF l = "pkg" THEN s.pkgs[pp.k].owned_files ELSE s.dirs[pp.k].files)
    ELSE (IF l = "pkg" THEN s.files[pp.k].pkg_files_list
                       ELSE s.files[pp.k].dir_files_list)

Store(s, l, pp, v) ==
    IF pp.h
    THEN (IF l = "pkg" THEN [s EXCEPT !.pkgs[pp.k].owned_files = v]
                       ELSE [s EXCEPT !.dirs[pp.k].files = v])
    ELSE (IF l = "pkg" THEN [s EXCEPT !.files[pp.k].pkg_files_list = v]
                       ELSE [s EXCEPT !.files[pp.k].dir_files_list = v])

IsNode(v) == v # NULL /\ v # LIST_END

\* A walk visits at most every allocated node once unless the chain is
\* cyclic; Fuel cuts a cyclic walk (which the C code would never leave).
Fuel(s) == Len(s.files) + 1

__hlist_del(s, l, n, pprev) ==
    LET s1 == Store(s, l, pprev, Load(s, l, NextSlot(n)))
    IN  Store(s1, l, NextSlot(n), NULL)

RECURSIVE hlist_find(_, _, _, _, _)
hlist_find(s, l, pp, n, fuel) ==
    LET v == Load(s, l, pp)
    IN  IF fuel > 0 /\ IsNode(v) /\ v # n
        THEN hlist_find(s, l, NextSlot(v), n, fuel - 1)
        ELSE pp

hlist_del(s, l, n, h) ==
    LET pp == hlist_find(s, l, HeadSlot(h), n, Fuel(s))
    IN  IF Load(s, l, pp) = n THEN __hlist_del(s, l, n, pp) ELSE s

hlist_add_after(s, l, n, prev) ==
    LET pv == Load(s, l, prev)
        s1 == Store(s, l, NextSlot(n), IF pv # NULL THEN pv ELSE LIST_END)
    IN  Store(s1, l, prev, n)

RECURSIVE hlist_last(_, _, _, _)
hlist_last(s, l, n, fuel) ==
    LET v == Load(s, l, NextSlot(n))
    IN  IF fuel > 0 /\ IsNode(v) THEN hlist_last(s, l, v, fuel - 1) ELSE n

hlist_tail_ptr(s, l, h) ==
    LET n == Load(s, l, HeadSlot(h))
    IN  IF ~IsNode(n) THEN HeadSlot(h)
        ELSE NextSlot(hlist_last(s, l, n, Fuel(s)))

\* hlist_for_each_entry: the nodes the iteration visits, in order.
RECURSIVE hlist_walk(_, _, _, _)
hlist_walk(s, l, pos, fuel) ==
    IF fuel > 0 /\ IsNode(pos)
    THEN <<pos>> \o hlist_walk(s, l, Load(s, l, NextSlot(pos)), fuel - 1)
    ELSE <<>>

hlist_for_each_entry(s, l, h) ==
    hlist_walk(s, l, Load(s, l, HeadSlot(h)), Fuel(s))

Range(q) == {q[i] : i \in DOMAIN q}

(***************************************************************************)
(* apk_defines.h: list_head.  l maps the address of every struct list_head *)
(* to its next and prev; PackagesHead is &db->installed.packages and the   *)
(* addresses after it are the installed_pkgs_list nodes of the packages.   *)
(***************************************************************************)
\* 0xdeadbeef and 0xabbaabba, as 32-bit two's complement values.
LIST_POISON1 == -559038737
LIST_POISON2 == -1413829702

\* Packages whose list node exists.
MaxNodes == 4

PackagesHead == 1
ListNodes == 2..(MaxNodes + 1)

list_init(l, list) == [l EXCEPT ![list] = [next |-> list, prev |-> list]]

__list_add(l, new, prev, next) ==
    LET l1 == [l EXCEPT ![next].prev = new]
        l2 == [l1 EXCEPT ![new].next = next]
        l3 == [l2 EXCEPT ![new].prev = prev]
    IN  [l3 EXCEPT ![prev].next = new]

list_add(l, new, head) == __list_add(l, new, head, l[head].next)

list_add_tail(l, new, head) == __list_add(l, new, l[head].prev, head)

__list_del(l, prev, next) ==
    LET l1 == [l EXCEPT ![next].prev = prev]
    IN  [l1 EXCEPT ![prev].next = next]

list_del(l, entry) ==
    LET l1 == __list_del(l, l[entry].prev, l[entry].next)
        l2 == [l1 EXCEPT ![entry].next = LIST_POISON1]
    IN  [l2 EXCEPT ![entry].prev = LIST_POISON2]

list_hashed(l, n) == l[n].next # l[n].prev

\* list_for_each: the nodes the iteration visits, in order.
RECURSIVE list_walk(_, _, _, _)
list_walk(l, pos, head, fuel) ==
    IF fuel > 0 /\ pos \in DOMAIN l /\ pos # head
    THEN <<pos>> \o list_walk(l, l[pos].next, head, fuel - 1)
    ELSE <<>>

list_for_each(l, head) == list_walk(l, l[head].next, head, MaxNodes + 1)

\* The memory after calloc of every package and list_init of the head.
EmptyList ==
    list_init([n \in {PackagesHead} \cup ListNodes |->
                  [next |-> NULL, prev |-> NULL]],
              PackagesHead)

(***************************************************************************)
(* The filesystem below the root, as the calls of database.c use it.       *)
(***************************************************************************)
RootDir == <<>>
Path(d, f) == [d |-> d, f |-> f, new |-> FALSE]
AltPath(d, f) == [d |-> d, f |-> f, new |-> TRUE]
Parent(name) == SubSeq(name, 1, Len(name) - 1)

DiskHas(s, p) == p \in DOMAIN s.disk
DiskWrite(s, p, c) ==
    [s EXCEPT !.disk = [q \in DOMAIN s.disk \cup {p} |->
                            IF q = p THEN c ELSE s.disk[q]]]

unlink(s, p) ==
    [s EXCEPT !.disk = [q \in DOMAIN s.disk \ {p} |-> s.disk[q]]]

mkdir(s, dirname, mode) ==
    IF dirname \notin DOMAIN s.fsdirs /\ Parent(dirname) \in DOMAIN s.fsdirs
       /\ dirname # RootDir
    THEN [s EXCEPT !.fsdirs =
              [q \in DOMAIN s.fsdirs \cup {dirname} |->
                  IF q = dirname THEN [mode |-> mode, uid |-> 0, gid |-> 0]
                  ELSE s.fsdirs[q]]]
    ELSE s

chown(s, dirname, uid, gid) ==
    IF dirname \in DOMAIN s.fsdirs /\ dirname # RootDir
    THEN [s EXCEPT !.fsdirs[dirname].uid = uid, !.fsdirs[dirname].gid = gid]
    ELSE s

rmdir(s, dirname) ==
    IF /\ dirname \in DOMAIN s.fsdirs
       /\ dirname # RootDir
       /\ \A p \in DOMAIN s.disk : p.d # dirname
       /\ \A q \in DOMAIN s.fsdirs : q = RootDir \/ Parent(q) # dirname
    THEN [s EXCEPT !.fsdirs = [q \in DOMAIN s.fsdirs \ {dirname} |->
                                   s.fsdirs[q]]]
    ELSE s

(***************************************************************************)
(* Directory table.                                                        *)
(***************************************************************************)
\* apk_db_dir_ref without the test of refs == 0: it counts the directory,
\* and references its parent, on every call.
RECURSIVE apk_db_dir_ref_always_counts(_, _, _)
apk_db_dir_ref_always_counts(s, dir, create_dir) ==
    LET d == s.dirs[dir]
        Count(sc) ==
            IF create_dir /\ d.mode # 0
            THEN chown(mkdir(sc, d.dirname, d.mode), d.dirname, d.uid, d.gid)
            ELSE sc
        First(sp) == Count([sp EXCEPT !.stats.dirs = @ + 1])
        Ref(s1) == [s1 EXCEPT !.dirs[dir].refs = @ + 1]
    IN  Ref(First(IF d.parent # NULL
                  THEN apk_db_dir_ref_always_counts(s, d.parent, create_dir)
                  ELSE s))

RECURSIVE apk_db_dir_ref(_, _, _)
apk_db_dir_ref(s, dir, create_dir) ==
    LET d == s.dirs[dir]
        Count(sc) ==
            IF create_dir /\ d.mode # 0
            THEN chown(mkdir(sc, d.dirname, d.mode), d.dirname, d.uid, d.gid)
            ELSE sc
        First(sp) == Count([sp EXCEPT !.stats.dirs = @ + 1])
        Ref(s1) == [s1 EXCEPT !.dirs[dir].refs = @ + 1]
    IN  Ref(IF d.refs = 0
            THEN First(IF d.parent # NULL
                       THEN apk_db_dir_ref(s, d.parent, create_dir)
                       ELSE s)
            ELSE s)

\* apk_db_dir_unref that releases the directory but not its parent.
apk_db_dir_unref_keeps_parent(s, dir) ==
    LET s1 == [s EXCEPT !.dirs[dir].refs = @ - 1]
        s2 == rmdir([s1 EXCEPT !.stats.dirs = @ - 1], s1.dirs[dir].dirname)
    IN  IF s1.dirs[dir].refs > 0 THEN s1 ELSE s2

RECURSIVE apk_db_dir_unref(_, _)
apk_db_dir_unref(s, dir) ==
    LET s1 == [s EXCEPT !.dirs[dir].refs = @ - 1]
        s2 == rmdir([s1 EXCEPT !.stats.dirs = @ - 1], s1.dirs[dir].dirname)
    IN  IF s1.dirs[dir].refs > 0 THEN s1
        ELSE IF s1.dirs[dir].parent # NULL
             THEN apk_db_dir_unref(s2, s1.dirs[dir].parent)
             ELSE s2

\* apk_hash_get(&db->installed.dirs, name)
DirLookup(s, name) ==
    IF \E i \in DOMAIN s.dirs : s.dirs[i].dirname = name
    THEN CHOOSE i \in DOMAIN s.dirs : s.dirs[i].dirname = name
    ELSE NULL

StripSlash(name) ==
    IF Len(name) > 0 /\ name[Len(name)] = "" THEN Parent(name) ELSE name

\* The loop over db->protected_paths in which no item sets PROTECTED.
RECURSIVE ApplyProtected_never_sets(_, _, _, _)
ApplyProtected_never_sets(rules, i, dirname, flags) ==
    IF i > Len(rules) THEN flags
    ELSE ApplyProtected_never_sets(rules, i + 1, dirname,
            IF rules[i].neg /\ rules[i].rest = dirname THEN FALSE
            ELSE flags)

\* The loop over db->protected_paths: each rule in order, on the flags so far.
\* A rule is the item as add_protected_path stored it: item is the whole
\* string as a path, neg is item[0] == '-' and rest is &item[1] as a path.
RECURSIVE ApplyProtected(_, _, _, _)
ApplyProtected(rules, i, dirname, flags) ==
    IF i > Len(rules) THEN flags
    ELSE ApplyProtected(rules, i + 1, dirname,
            IF rules[i].neg /\ rules[i].rest = dirname THEN FALSE
            ELSE IF rules[i].item = dirname THEN TRUE
            ELSE flags)

\* Returns [s, dir].
RECURSIVE apk_db_dir_get(_, _)
apk_db_dir_get(s, name0) ==
    LET name == StripSlash(name0)
        new  == Len(s.dirs) + 1
        s1   == [s EXCEPT !.dirs = Append(@,
                    [dirname |-> name, parent |-> NULL, refs |-> 0,
                     mode |-> 0, uid |-> 0, gid |-> 0, flags |-> FALSE,
                     files |-> NULL])]
        \* pr: the state and the directory the lookup of the parent returns
        Made(pr) ==
            [s |-> [pr.s EXCEPT
                      !.dirs[new].parent = pr.dir,
                      !.dirs[new].flags =
                          ApplyProtected(s.protected_paths, 1, name,
                              IF pr.dir # NULL THEN pr.s.dirs[pr.dir].flags
                              ELSE FALSE)],
             dir |-> new]
        Got(dir) ==
            IF dir # NULL THEN [s |-> s, dir |-> dir]
            ELSE Made(IF Len(name) = 0 THEN [s |-> s1, dir |-> NULL]
                      ELSE IF Len(name) >= 2
                      THEN apk_db_dir_get(s1, Parent(name))
                      ELSE apk_db_dir_get(s1, RootDir))
    IN  Got(DirLookup(s, name))

(***************************************************************************)
(* Files.                                                                  *)
(***************************************************************************)
\* Returns [s, file].
apk_db_file_new(s, dir, name, after) ==
    LET new == Len(s.files) + 1
        s1  == [s EXCEPT !.files = Append(@,
                   [dir |-> NULL, filename |-> "", owner |-> NULL,
                    csum |-> bad_checksum, dir_files_list |-> NULL,
                    pkg_files_list |-> NULL])]
        s2  == hlist_add_after(s1, "dir", new, after)
    IN  [s |-> [s2 EXCEPT !.files[new].dir = dir,
                          !.files[new].filename = name],
         file |-> new]

\* apk_db_file_set_owner that counts the file also when it had an owner.
apk_db_file_set_owner_counts_again(s, file, owner, create_dir, after) ==
    LET Link(s2) == hlist_add_after([s2 EXCEPT !.files[file].owner = owner],
                                    "pkg", file, after)
    IN  Link(apk_db_dir_ref(
                 IF s.files[file].owner # NULL
                 THEN hlist_del([s EXCEPT !.stats.files = @ + 1,
                                          !.takeovers =
                                              Append(@, s.files[file].dir)],
                                "pkg", file, s.files[file].owner)
                 ELSE [s EXCEPT !.stats.files = @ + 1],
                 s.files[file].dir, create_dir))

apk_db_file_set_owner(s, file, owner, create_dir, after) ==
    LET Link(s2) == hlist_add_after([s2 EXCEPT !.files[file].owner = owner],
                                    "pkg", file, after)
    IN  Link(apk_db_dir_ref(
                 IF s.files[file].owner # NULL
                 THEN hlist_del([s EXCEPT !.takeovers =
                                              Append(@, s.files[file].dir)],
                                "pkg", file, s.files[file].owner)
                 ELSE [s EXCEPT !.stats.files = @ + 1],
                 s.files[file].dir, create_dir))

\* The first file of dir->files with this filename, or NULL.
DirFileLookup(s, dir, bfile) ==
    LET fs == hlist_for_each_entry(s, "dir", dir)
        hit == {i \in DOMAIN fs : s.files[fs[i]].filename = bfile}
    IN  IF hit = {} THEN NULL
        ELSE fs[CHOOSE i \in hit : \A j \in hit : i <= j]

\* Returns [s, ctx, file].
apk_db_file_get(s, name, ctx) ==
    LET split == Len(name) >= 2
        bdir  == Parent(name)
        bfile == name[Len(name)]
        hit   == split /\ ctx.dircache # NULL
                 /\ s.dirs[ctx.dircache].dirname = bdir
        New(ctx1, made) ==
            [s |-> made.s,
             ctx |-> [ctx1 EXCEPT !.file_dir_node = NextSlot(made.file)],
             file |-> made.file]
        Found(s1, dir, ctx1, file) ==
            IF file # NULL THEN [s |-> s1, ctx |-> ctx1, file |-> file]
            ELSE New(ctx1, apk_db_file_new(s1, dir, bfile, ctx1.file_dir_node))
        Find(s1, dir, ctx1) ==
            Found(s1, dir, ctx1, DirFileLookup(s1, dir, bfile))
        Cache(got) ==
            Find(got.s, got.dir,
                 IF got.dir # ctx.dircache
                 THEN [ctx EXCEPT
                         !.dircache = got.dir,
                         !.file_dir_node =
                             hlist_tail_ptr(got.s, "dir", got.dir)]
                 ELSE ctx)
    IN  Cache(IF ~split THEN apk_db_dir_get(s, RootDir)
              ELSE IF hit THEN [s |-> s, dir |-> ctx.dircache]
              ELSE apk_db_dir_get(s, bdir))

(***************************************************************************)
(* Names and packages.                                                     *)
(***************************************************************************)
\* Returns [s, pn].
apk_db_get_name(s, name) ==
    IF \E i \in DOMAIN s.names : s.names[i].name = name
    THEN [s |-> s, pn |-> CHOOSE i \in DOMAIN s.names : s.names[i].name = name]
    ELSE [s |-> [s EXCEPT !.names = Append(@, [name |-> name, pkgs |-> <<>>])],
          pn |-> Len(s.names) + 1]

\* Returns [s, pkg]: a zeroed package.
apk_pkg_new(s) ==
    [s |-> [s EXCEPT !.pkgs = Append(@,
               [name |-> NULL, version |-> "", csum |-> bad_checksum,
                repos |-> {}, id |-> 0, state |-> "NO_INSTALL",
                owned_files |-> NULL, scripts |-> <<>>, freed |-> FALSE])],
     pkg |-> Len(s.pkgs) + 1]

apk_pkg_free(s, pkg) == [s EXCEPT !.pkgs[pkg].freed = TRUE]

\* Returns [s, r]: r = 0 when the field is an index field.
apk_pkg_add_info(s, pkg, field, value) ==
    IF field = "P"
    THEN LET n == apk_db_get_name(s, value)
         IN  [s |-> [n.s EXCEPT !.pkgs[pkg].name = n.pn], r |-> 0]
    ELSE IF field = "V"
    THEN [s |-> [s EXCEPT !.pkgs[pkg].version = value], r |-> 0]
    ELSE IF field = "C"
    THEN [s |-> [s EXCEPT !.pkgs[pkg].csum = value], r |-> 0]
    ELSE [s |-> s, r |-> -1]

\* The index-entry block of a package, as lines.
apk_pkg_format_index_entry(s, pkg) ==
    << [f |-> "P", v |-> s.names[s.pkgs[pkg].name].name],
       [f |-> "V", v |-> s.pkgs[pkg].version],
       [f |-> "C", v |-> s.pkgs[pkg].csum] >>

SeqWithout(q, x) ==
    LET keep == {i \in DOMAIN q : q[i] # x}
        F[i \in 0..Len(q)] ==
            IF i = 0 THEN <<>>
            ELSE IF i \in keep THEN Append(F[i - 1], q[i]) ELSE F[i - 1]
    IN  F[Len(q)]

apk_pkg_set_state(s, pkg, state) ==
    IF state = "INSTALL" /\ s.pkgs[pkg].state # "INSTALL"
    THEN [s EXCEPT !.pkgs[pkg].state = "INSTALL",
                   !.stats.packages = @ + 1,
                   !.installed_packages = Append(@, pkg)]
    ELSE IF state = "NO_INSTALL" /\ s.pkgs[pkg].state = "INSTALL"
    THEN [s EXCEPT !.pkgs[pkg].state = "NO_INSTALL",
                   !.stats.packages = @ - 1,
                   !.installed_packages = SeqWithout(@, pkg)]
    ELSE s

\* apk_hash_get(&db->available.packages, csum)
apk_db_get_pkg(s, csum) ==
    IF \E p \in s.available_packages : s.pkgs[p].csum = csum
    THEN CHOOSE p \in s.available_packages : s.pkgs[p].csum = csum
    ELSE NULL

\* apk_db_pkg_add without the lookup by checksum: every package is inserted.
apk_db_pkg_add_always_inserts(s, pkg) ==
    [s |-> [s EXCEPT !.pkgs[pkg].id = s.pkg_id,
                     !.pkg_id = @ + 1,
                     !.available_packages = @ \cup {pkg},
                     !.names[s.pkgs[pkg].name].pkgs = Append(@, pkg)],
     idb |-> pkg]

\* Returns [s, idb].
apk_db_pkg_add(s, pkg) ==
    LET idb == apk_db_get_pkg(s, s.pkgs[pkg].csum)
    IN  IF idb = NULL
        THEN [s |-> [s EXCEPT !.pkgs[pkg].id = s.pkg_id,
                              !.pkg_id = @ + 1,
                              !.available_packages = @ \cup {pkg},
                              !.names[s.pkgs[pkg].name].pkgs = Append(@, pkg)],
              idb |-> pkg]
        ELSE [s |-> apk_pkg_free(
                       [s EXCEPT !.pkgs[idb].repos = @ \cup s.pkgs[pkg].repos],
                       pkg),
              idb |-> idb]

(***************************************************************************)
(* FDB reader and writer.  A stream is the sequence of its lines; a line   *)
(* "<letter>:<value>" is [f |-> letter, v |-> value] and any line that is  *)
(* shorter than two characters or has no ':' second is [f |-> ""].  The    *)
(* value of M is <<uid, gid, mode>>, what "%d:%d:%o" prints and scans; a   *)
(* negative Z value stands for text that is no hex digest.                 *)
(***************************************************************************)
NoRepo == -1

ParserInit ==
    [pkg |-> NULL, dir |-> NULL, file |-> NULL, file_dir_node |-> NoSlot,
     file_pkg_node |-> NoSlot]

\* One line of the stream.  Returns [s, ps, r, done]: done = TRUE when
\* apk_db_index_read returns r at this line.
IndexReadTerminator(s, ps, repo) ==
    LET Added(a) ==
            IF a.idb # ps.pkg /\ repo = NoRepo
            THEN [s |-> Emit(a.s, [e |-> "error",
                                   t |-> "Installed database load failed",
                                   n |-> 0]),
                  ps |-> ps, r |-> -1, done |-> TRUE]
            ELSE [s |-> a.s, ps |-> [ps EXCEPT !.pkg = NULL], r |-> 0,
                  done |-> FALSE]
    IN  IF ps.pkg = NULL
        THEN [s |-> s, ps |-> ps, r |-> 0, done |-> FALSE]
        ELSE Added(apk_db_pkg_add(
                       IF repo # NoRepo
                       THEN [s EXCEPT !.pkgs[ps.pkg].repos = @ \cup {repo}]
                       ELSE apk_pkg_set_state(s, ps.pkg, "INSTALL"),
                       ps.pkg))

IndexReadFdbEntry(s, ps, field, l) ==
    LET fail == [s |-> s, ps |-> ps, r |-> -1, done |-> TRUE]
        cont(s1, ps1) == [s |-> s1, ps |-> ps1, r |-> 0, done |-> FALSE]
        Dir(g) ==
            cont(g.s, [ps EXCEPT !.dir = g.dir,
                          !.file_dir_node = hlist_tail_ptr(g.s, "dir", g.dir)])
        File(n) ==
            cont(apk_db_file_set_owner(n.s, n.file, ps.pkg, FALSE,
                                       ps.file_pkg_node),
                 [ps EXCEPT !.file = n.file,
                            !.file_dir_node = NextSlot(n.file),
                            !.file_pkg_node = NextSlot(n.file)])
    IN  IF field = "F"
        THEN IF s.pkgs[ps.pkg].name = NULL THEN fail
             ELSE Dir(apk_db_dir_get(s, l))
        ELSE IF field = "M"
        THEN IF ps.dir = NULL THEN fail
             ELSE cont([s EXCEPT !.dirs[ps.dir].uid = l[1],
                                 !.dirs[ps.dir].gid = l[2],
                                 !.dirs[ps.dir].mode = l[3]], ps)
        ELSE IF field = "R"
        THEN IF ps.dir = NULL THEN fail
             ELSE File(apk_db_file_new(s, ps.dir, l, ps.file_dir_node))
        ELSE IF field = "Z"
        THEN IF ps.file = NULL THEN fail
             ELSE IF l < 0 THEN fail
             ELSE cont([s EXCEPT !.files[ps.file].csum = l], ps)
        ELSE fail

IndexReadLine(s, ps0, ln, repo) ==
    LET Field(s1, ps, inf) ==
            IF inf.r = 0
            THEN [s |-> inf.s, ps |-> ps, r |-> 0, done |-> FALSE]
            ELSE IF repo # NoRepo
            THEN [s |-> s1, ps |-> ps, r |-> -1, done |-> TRUE]
            ELSE IndexReadFdbEntry(s1, ps, ln.f, ln.v)
        Info(s1, ps) == Field(s1, ps, apk_pkg_add_info(s1, ps.pkg, ln.f, ln.v))
        New(n) ==
            Info(n.s, [ps0 EXCEPT !.pkg = n.pkg, !.dir = NULL,
                                  !.file_dir_node = NoSlot,
                                  !.file_pkg_node =
                                      hlist_tail_ptr(n.s, "pkg", n.pkg)])
    IN  IF ln.f = "" THEN IndexReadTerminator(s, ps0, repo)
        ELSE IF ps0.pkg = NULL THEN New(apk_pkg_new(s))
        ELSE Info(s, ps0)

RECURSIVE IndexReadFrom(_, _, _, _, _)
IndexReadFrom(s, ps, is, i, repo) ==
    LET Read(x) == IF x.done THEN [s |-> x.s, r |-> x.r]
                   ELSE IndexReadFrom(x.s, x.ps, is, i + 1, repo)
    IN  IF i > Len(is) THEN [s |-> s, r |-> 0]
        ELSE Read(IndexReadLine(s, ps, is[i], repo))

\* Returns [s, r].
apk_db_index_read(s, is, repo) == IndexReadFrom(s, ParserInit, is, 1, repo)

csum_valid(c) == c # bad_checksum

\* The lines written for the owned files of one package, from position i of
\* the iteration fs, dir being the directory of the previous file.
RECURSIVE WriteFdbFiles(_, _, _, _)
WriteFdbFiles(s, fs, i, dir) ==
    IF i > Len(fs) THEN <<>>
    ELSE LET f  == s.files[fs[i]]
             d  == s.dirs[f.dir]
             hd == IF dir # f.dir
                   THEN << [f |-> "F", v |-> d.dirname],
                           [f |-> "M", v |-> <<d.uid, d.gid, d.mode>>] >>
                   ELSE <<>>
             z  == IF csum_valid(f.csum) THEN << [f |-> "Z", v |-> f.csum] >>
                   ELSE <<>>
         IN  IF f.owner = NULL THEN WriteFdbFiles(s, fs, i + 1, dir)
             ELSE hd \o << [f |-> "R", v |-> f.filename] >> \o z
                  \o WriteFdbFiles(s, fs, i + 1, f.dir)

RECURSIVE WriteFdbPkgs(_, _)
WriteFdbPkgs(s, i) ==
    IF i > Len(s.installed_packages) THEN <<>>
    ELSE LET pkg == s.installed_packages[i]
         IN  apk_pkg_format_index_entry(s, pkg)
             \o WriteFdbFiles(s, hlist_for_each_entry(s, "pkg", pkg), 1, NULL)
             \o << [f |-> ""] >>
             \o WriteFdbPkgs(s, i + 1)

\* The stream apk_db_write_fdb writes.
apk_db_write_fdb(s) == WriteFdbPkgs(s, 1)

(***************************************************************************)
(* Scripts.  env.fail is the set of script types whose run exits nonzero.  *)
(***************************************************************************)
\* apk_script_type: the last component of an APK 1.0 script path.
apk_script_type(p) ==
    IF p = "pre-install" THEN "PRE_INSTALL"
    ELSE IF p = "post-install" THEN "POST_INSTALL"
    ELSE IF p = "pre-upgrade" THEN "PRE_UPGRADE"
    ELSE IF p = "post-upgrade" THEN "POST_UPGRADE"
    ELSE IF p = "pre-deinstall" THEN "PRE_DEINSTALL"
    ELSE IF p = "post-deinstall" THEN "POST_DEINSTALL"
    ELSE "INVALID"

\* The script types, in the order of their numbers from 0.
ScriptTypes ==
    << "GENERIC", "PRE_INSTALL", "POST_INSTALL", "PRE_DEINSTALL",
       "POST_DEINSTALL", "PRE_UPGRADE", "POST_UPGRADE", "INVALID" >>

TypeCode(type) == (CHOOSE i \in DOMAIN ScriptTypes : ScriptTypes[i] = type) - 1

\* apk_pkg_add_script(pkg, is, type, size): a new script of the package with
\* the next size cells of the stream; is is what the stream still holds.
apk_pkg_add_script(s, pkg, is, type, size) ==
    [s EXCEPT !.pkgs[pkg].scripts =
        Append(@, [type |-> type, size |-> size,
                   script |-> SubSeq(is, 1, IF size < Len(is) THEN size
                                            ELSE Len(is))])]

\* Returns [s, r]: the exit code of the package's script of this type (or
\* its generic script), 0 when it has none.
apk_pkg_run_script(s, pkg, type, env) ==
    IF \E i \in DOMAIN s.pkgs[pkg].scripts :
           s.pkgs[pkg].scripts[i].type \in {TypeCode(type), TypeCode("GENERIC")}
    THEN [s |-> Emit(s, [e |-> "script", t |-> type, n |-> pkg]),
          r |-> IF type \in env.fail THEN 1 ELSE 0]
    ELSE [s |-> s, r |-> 0]

(***************************************************************************)
(* Script store.  The stream is a sequence of cells: a header is the three *)
(* cells csum, type, size and its payload the size cells after it.         *)
(***************************************************************************)
\* sizeof(struct apk_script_header), in cells.
HdrLen == 3

\* The cells written for the scripts of one package, from its i-th script.
RECURSIVE WriteScripts(_, _, _)
WriteScripts(s, pkg, i) ==
    IF i > Len(s.pkgs[pkg].scripts) THEN <<>>
    ELSE << s.pkgs[pkg].csum, s.pkgs[pkg].scripts[i].type,
            s.pkgs[pkg].scripts[i].size >>
         \o s.pkgs[pkg].scripts[i].script
         \o WriteScripts(s, pkg, i + 1)

RECURSIVE WriteScriptPkgs(_, _)
WriteScriptPkgs(s, i) ==
    IF i > Len(s.installed_packages) THEN <<>>
    ELSE WriteScripts(s, s.installed_packages[i], 1)
         \o WriteScriptPkgs(s, i + 1)

\* The stream apk_db_scriptdb_write writes.
apk_db_scriptdb_write(s) == WriteScriptPkgs(s, 1)

\* The loop of apk_db_scriptdb_read, the next read starting at cell pos.
RECURSIVE ScriptdbReadFrom(_, _, _)
ScriptdbReadFrom(s, is, pos) ==
    LET Hdr(pkg, type, size) ==
            IF pkg # NULL
            THEN ScriptdbReadFrom(
                     apk_pkg_add_script(s, pkg, SubSeq(is, pos + HdrLen, Len(is)),
                                        type, size),
                     is, pos + HdrLen + size)
            ELSE ScriptdbReadFrom(s, is, pos + HdrLen)
    IN  IF pos + HdrLen - 1 > Len(is) THEN s
        ELSE Hdr(apk_db_get_pkg(s, is[pos]), is[pos + 1], is[pos + 2])

apk_db_scriptdb_read(s, is) == ScriptdbReadFrom(s, is, 1)

(***************************************************************************)
(* Install engine.  An archive is the sequence of its entries              *)
(* [name, isdir, mode, uid, gid, csum, size]; csum is the checksum of the  *)
(* entry's payload.                                                        *)
(***************************************************************************)
\* ae->name[0] == '.', over the names archives carry.
StartsWithDot(name) == name[1] \in {".INSTALL", ".PKGINFO", ".keep_top"}

\* strncmp(file->filename, ".keep_", 6) == 0, over the same names.
IsKeepFile(filename) == filename \in {".keep_top", ".keep_dir"}

\* strncmp(ae->name, "var/db/apk/", 11) == 0
IsApk1Meta(name) ==
    Len(name) >= 4 /\ SubSeq(name, 1, 3) = <<"var", "db", "apk">>

\* The script type of an entry, "INVALID" for an installable entry and
\* "IGNORE" for metadata the handler returns 0 on.
EntryScriptType(s, pkg, name) ==
    IF StartsWithDot(name)
    THEN (IF name = <<".INSTALL">> THEN "GENERIC" ELSE "IGNORE")
    ELSE IF IsApk1Meta(name)
    THEN (IF Len(name) < 6 THEN "IGNORE"
          ELSE IF name[4] # s.names[s.pkgs[pkg].name].name THEN "IGNORE"
          ELSE IF name[5] # s.pkgs[pkg].version THEN "IGNORE"
          ELSE IF apk_script_type(name[6]) = "INVALID" THEN "IGNORE"
          ELSE apk_script_type(name[6]))
    ELSE "INVALID"

FileDirname(s, file) == s.dirs[s.files[file].dir].dirname

\* apk_archive_entry_extract(ae, is, alt_name or NULL).
apk_archive_entry_extract(s, p, ae) ==
    [s |-> Emit(DiskWrite(s, p, ae.csum),
                [e |-> IF p.new THEN "extract-new" ELSE "extract",
                 t |-> p.f, n |-> ae.csum]),
     r |-> 0]

\* The regular-file branch without the test of the previous owner.
InstallFileEntry_no_conflict(s0, ctx0, pkg, ae, env) ==
    LET Extracted(x, ctx1, file) ==
            [s |-> [x.s EXCEPT !.files[file].csum = ae.csum],
             ctx |-> ctx1, r |-> x.r]
        Owned(s1, ctx1, file) ==
            LET f      == s1.files[file]
                real   == Path(FileDirname(s1, file), f.filename)
                alt    == AltPath(env.ubdir, f.filename)
                divert == /\ s1.dirs[f.dir].flags
                          /\ csum_valid(f.csum)
                          /\ DiskHas(s1, real)
                          /\ f.csum # s1.disk[real]
            IN  IF IsKeepFile(f.filename)
                THEN [s |-> s1, ctx |-> ctx1, r |-> 0]
                ELSE Extracted(apk_archive_entry_extract(
                                   s1, IF divert THEN alt ELSE real, ae),
                               ctx1, file)
        Got(g) ==
            Owned(apk_db_file_set_owner(g.s, g.file, pkg, TRUE,
                                        g.ctx.file_pkg_node),
                  [g.ctx EXCEPT !.file_pkg_node = NextSlot(g.file)],
                  g.file)
    IN  Got(apk_db_file_get(s0, ae.name, ctx0))

\* The regular-file branch.  Returns [s, ctx, r].
InstallFileEntry(s0, ctx0, pkg, ae, env) ==
    LET Extracted(x, ctx1, file) ==
            [s |-> [x.s EXCEPT !.files[file].csum = ae.csum],
             ctx |-> ctx1, r |-> x.r]
        Owned(s1, ctx1, file) ==
            LET f      == s1.files[file]
                real   == Path(FileDirname(s1, file), f.filename)
                \* `dir' is read uninitialised here: any directory, or none
                alt    == AltPath(env.ubdir, f.filename)
                divert == /\ s1.dirs[f.dir].flags
                          /\ csum_valid(f.csum)
                          /\ DiskHas(s1, real)
                          /\ f.csum # s1.disk[real]
            IN  IF IsKeepFile(f.filename)
                THEN [s |-> s1, ctx |-> ctx1, r |-> 0]
                ELSE Extracted(apk_archive_entry_extract(
                                   s1, IF divert THEN alt ELSE real, ae),
                               ctx1, file)
        Got(g) ==
            LET owner == g.s.files[g.file].owner
            IN  IF /\ owner # NULL
                   /\ g.s.pkgs[owner].name # g.s.pkgs[pkg].name
                   /\ g.s.names[g.s.pkgs[owner].name].name # "busybox"
                THEN [s |-> Emit(g.s, [e |-> "conflict",
                                       t |-> g.s.files[g.file].filename,
                                       n |-> g.file]),
                      ctx |-> g.ctx, r |-> -1]
                ELSE Owned(apk_db_file_set_owner(g.s, g.file, pkg, TRUE,
                                                 g.ctx.file_pkg_node),
                           [g.ctx EXCEPT !.file_pkg_node = NextSlot(g.file)],
                           g.file)
    IN  Got(apk_db_file_get(s0, ae.name, ctx0))

\* The directory branch, taking a reference on the directory it names.
InstallDirEntry_takes_ref(s, ctx, ae) ==
    LET Set(g) == [s |-> apk_db_dir_ref(
                             [g.s EXCEPT !.dirs[g.dir].mode = ae.mode % 4096,
                                         !.dirs[g.dir].uid = ae.uid,
                                         !.dirs[g.dir].gid = ae.gid],
                             g.dir, TRUE),
                   ctx |-> ctx, r |-> 0]
    IN  Set(apk_db_dir_get(s, StripSlash(ae.name)))

\* The directory branch.
InstallDirEntry(s, ctx, ae) ==
    LET Set(g) == [s |-> [g.s EXCEPT !.dirs[g.dir].mode = ae.mode % 4096,
                                     !.dirs[g.dir].uid = ae.uid,
                                     !.dirs[g.dir].gid = ae.gid],
                   ctx |-> ctx, r |-> 0]
    IN  Set(apk_db_dir_get(s, StripSlash(ae.name)))

\* S_ISDIR: the file-type bits of st_mode are 004 (octal 040000).
S_ISDIR(mode) == (mode \div 4096) % 16 = 4

\* Returns [s, ctx, r].
apk_db_install_archive_entry(s, ctx, ae, env) ==
    LET pkg  == ctx.pkg
        type == EntryScriptType(s, pkg, ae.name)
        s1   == apk_pkg_add_script(s, pkg, <<ae.csum>>, TypeCode(type),
                                   ae.size)
        run  == apk_pkg_run_script(s1, pkg, ctx.script, env)
        ctx1 == IF ctx.file_pkg_node = NoSlot
                THEN [ctx EXCEPT !.file_pkg_node =
                                     hlist_tail_ptr(s, "pkg", pkg)]
                ELSE ctx
    IN  IF type = "IGNORE" THEN [s |-> s, ctx |-> ctx, r |-> 0]
        ELSE IF type # "INVALID"
        THEN (IF type = "GENERIC" \/ type = ctx.script
              THEN [s |-> run.s, ctx |-> ctx, r |-> run.r]
              ELSE [s |-> s1, ctx |-> ctx, r |-> 0])
        ELSE IF ~S_ISDIR(ae.mode) THEN InstallFileEntry(s, ctx1, pkg, ae, env)
        ELSE InstallDirEntry(s, ctx1, ae)

\* apk_parse_tar_gz: the callback on every entry in order, until one
\* returns nonzero.  Returns [s, ctx, r].
RECURSIVE apk_parse_tar_gz(_, _, _, _, _)
apk_parse_tar_gz(s, ctx, bs, i, env) ==
    LET Entry(x) == IF x.r # 0 THEN x
                    ELSE apk_parse_tar_gz(x.s, x.ctx, bs, i + 1, env)
    IN  IF i > Len(bs) THEN [s |-> s, ctx |-> ctx, r |-> 0]
        ELSE Entry(apk_db_install_archive_entry(
                       Emit(s, [e |-> "entry", t |-> "", n |-> i]),
                       ctx, bs[i], env))

\* The loop of apk_db_purge_pkg without the decrement of stats.files.
RECURSIVE PurgeFrom_keeps_count(_, _, _, _)
PurgeFrom_keeps_count(s, pkg, c, fuel) ==
    LET n  == s.files[c].pkg_files_list
        fn == Path(FileDirname(s, c), s.files[c].filename)
        Counted(s4) == PurgeFrom_keeps_count(s4, pkg, n, fuel - 1)
        Unlinked(s2) ==
            Counted(__hlist_del(apk_db_dir_unref(s2, s.files[c].dir),
                                "pkg", c, HeadSlot(pkg)))
    IN  IF fuel = 0 \/ ~IsNode(c) THEN s
        ELSE Unlinked(Emit(unlink([s EXCEPT !.files[c].owner = NULL], fn),
                           [e |-> "unlink", t |-> s.files[c].filename,
                            n |-> c]))

\* The body of the loop of apk_db_purge_pkg, from node c.
RECURSIVE PurgeFrom(_, _, _, _)
PurgeFrom(s, pkg, c, fuel) ==
    LET n  == s.files[c].pkg_files_list
        fn == Path(FileDirname(s, c), s.files[c].filename)
        Counted(s4) == PurgeFrom([s4 EXCEPT !.stats.files = @ - 1], pkg, n, fuel - 1)
        Unlinked(s2) ==
            Counted(__hlist_del(apk_db_dir_unref(s2, s.files[c].dir),
                                "pkg", c, HeadSlot(pkg)))
    IN  IF fuel = 0 \/ ~IsNode(c) THEN s
        ELSE Unlinked(Emit(unlink([s EXCEPT !.files[c].owner = NULL], fn),
                           [e |-> "unlink", t |-> s.files[c].filename,
                            n |-> c]))

apk_db_purge_pkg(s, pkg) ==
    apk_pkg_set_state(
        PurgeFrom(s, pkg, s.pkgs[pkg].owned_files, Fuel(s)),
        pkg, "NO_INSTALL")

\* InstallNew that fails on a checksum mismatch, before the package is
\* marked installed.
InstallNew_rejects_mismatch(s, oldpkg, newpkg, bs, env) ==
    LET ctx == [pkg |-> newpkg,
                script |-> IF oldpkg = NULL THEN "PRE_INSTALL"
                           ELSE "PRE_UPGRADE",
                dircache |-> NULL, file_dir_node |-> NoSlot,
                file_pkg_node |-> NoSlot]
        Installed(s1) ==
            apk_pkg_run_script(
                s1, newpkg,
                IF oldpkg = NULL THEN "POST_INSTALL" ELSE "POST_UPGRADE",
                env)
        Parsed(x) ==
            IF x.r # 0 \/ ~env.csum_ok THEN [s |-> x.s, r |-> -1]
            ELSE Installed(Emit(apk_pkg_set_state(x.s, newpkg, "INSTALL"),
                                [e |-> "installed", t |-> "", n |-> newpkg]))
    IN  IF env.bsnull THEN [s |-> s, r |-> 2]
        ELSE Parsed(apk_parse_tar_gz(s, ctx, bs, 1, env))

\* The part of apk_db_install_pkg that installs newpkg.  Returns [s, r].
InstallNew(s, oldpkg, newpkg, bs, env) ==
    LET ctx == [pkg |-> newpkg,
                script |-> IF oldpkg = NULL THEN "PRE_INSTALL"
                           ELSE "PRE_UPGRADE",
                dircache |-> NULL, file_dir_node |-> NoSlot,
                file_pkg_node |-> NoSlot]
        Installed(s1) ==
            apk_pkg_run_script(
                IF ~env.csum_ok   \* memcmp(csum, newpkg->csum) != 0
                THEN Emit(s1, [e |-> "warning",
                               t |-> "checksum does not match", n |-> newpkg])
                ELSE s1,
                newpkg,
                IF oldpkg = NULL THEN "POST_INSTALL" ELSE "POST_UPGRADE",
                env)
        Parsed(x) ==
            IF x.r # 0 THEN [s |-> x.s, r |-> -1]
            ELSE Installed(Emit(apk_pkg_set_state(x.s, newpkg, "INSTALL"),
                                [e |-> "installed", t |-> "", n |-> newpkg]))
    IN  IF env.bsnull THEN [s |-> s, r |-> 2]   \* bs == NULL: errno
        ELSE Parsed(apk_parse_tar_gz(s, ctx, bs, 1, env))

\* apk_db_install_pkg that purges whatever PRE_DEINSTALL returned.
apk_db_install_pkg_ignores_pre(s, oldpkg, newpkg, bs, env) ==
    LET Remove(pre) ==
            [s |-> apk_pkg_run_script(apk_db_purge_pkg(pre.s, oldpkg),
                                      oldpkg, "POST_DEINSTALL", env).s,
             r |-> pre.r]
    IN  IF oldpkg # NULL /\ newpkg = NULL
        THEN Remove(apk_pkg_run_script(s, oldpkg, "PRE_DEINSTALL", env))
        ELSE InstallNew(IF oldpkg # NULL THEN apk_db_purge_pkg(s, oldpkg)
                        ELSE s,
                        oldpkg, newpkg, bs, env)

\* Returns [s, r].
apk_db_install_pkg(s, oldpkg, newpkg, bs, env) ==
    LET Remove(pre) ==
            IF pre.r # 0 THEN [s |-> pre.s, r |-> pre.r]
            ELSE [s |-> apk_pkg_run_script(apk_db_purge_pkg(pre.s, oldpkg),
                                           oldpkg, "POST_DEINSTALL", env).s,
                  r |-> 0]
    IN  IF oldpkg # NULL /\ newpkg = NULL
        THEN Remove(apk_pkg_run_script(s, oldpkg, "PRE_DEINSTALL", env))
        ELSE InstallNew(IF oldpkg # NULL THEN apk_db_purge_pkg(s, oldpkg)
                        ELSE s,
                        oldpkg, newpkg, bs, env)

(***************************************************************************)
(* Database facade.                                                        *)
(***************************************************************************)
\* apk_db_add_repository that takes the slot before it tests the limit.
apk_db_add_repository_counts_first(s, url, is, isnull) ==
    LET r  == s.num_repos
        s1 == [s EXCEPT !.num_repos = @ + 1,
                        !.repos = [@ EXCEPT ![r + 1] = url]]
    IN  IF s.num_repos >= APK_MAX_REPOS
        THEN [s |-> [s EXCEPT !.num_repos = @ + 1], r |-> -1]
        ELSE IF isnull THEN [s |-> s1, r |-> -1]
        ELSE [s |-> apk_db_index_read(s1, is, r).s, r |-> 0]

\* Returns [s, r].  isnull: apk_istream_from_file_gz returned NULL.
apk_db_add_repository(s, url, is, isnull) ==
    LET r  == s.num_repos
        s1 == [s EXCEPT !.num_repos = @ + 1,
                        !.repos = [@ EXCEPT ![r + 1] = url]]
    IN  IF s.num_repos >= APK_MAX_REPOS THEN [s |-> s, r |-> -1]
        ELSE IF isnull THEN [s |-> s1, r |-> -1]
        ELSE [s |-> apk_db_index_read(s1, is, r).s, r |-> 0]

\* The items add_protected_path stores: a plain path, or '-' and a path.
Plain(path) == [neg |-> FALSE, item |-> path, rest |-> path]
Minus(dashed, path) == [neg |-> TRUE, item |-> dashed, rest |-> path]

\* "etc:-etc/init.d", split at ':' by add_protected_path.
DefaultProtectedPaths ==
    << Plain(<<"etc">>), Minus(<<"-etc", "init.d">>, <<"etc", "init.d">>) >>

\* The return values of apk_db_index_read and apk_db_scriptdb_read are
\* dropped.
apk_db_read_state(s, world_ok) ==
    IF ~world_ok THEN [s |-> s, r |-> -1]
    ELSE [s |-> apk_db_scriptdb_read(
                    apk_db_index_read(s, s.installed_file, NoRepo).s,
                    s.scripts_file),
          r |-> 0]

\* etc/apk/repositories names one repository, whose index is the stream is.
apk_db_open(s, root_ok, world_ok, url, is) ==
    LET State(st) ==
            IF st.r # 0 THEN [s |-> st.s, r |-> -1]
            ELSE [s |-> apk_db_add_repository(st.s, url, is, FALSE).s,
                  r |-> 0]
    IN  IF ~root_ok THEN [s |-> s, r |-> -1]
        ELSE State(apk_db_read_state(
                       [s EXCEPT !.protected_paths = DefaultProtectedPaths],
                       world_ok))

\* The three streams are opened for writing one after the other; world is
\* not part of the state.
apk_db_write_config(s) ==
    [s EXCEPT !.installed_file = apk_db_write_fdb(s),
              !.scripts_file = apk_db_scriptdb_write(s)]

\* apk_hash_free of the three hashes; the files under var/lib/apk are not
\* touched.
apk_db_close(s) ==
    [s EXCEPT !.names = <<>>, !.available_packages = {}, !.dirs = <<>>]

\* apk_state_commit with a transaction of one change, then the write-back:
\* the change is installed, and a failed install fails the commit.
\* Returns [s, r].
apk_db_recalculate_and_commit(s, oldpkg, newpkg, bs, env) ==
    LET Committed(x) ==
            IF x.r # 0
            THEN [s |-> Emit(x.s, [e |-> "error",
                                   t |-> "Failed to commit changes", n |-> 0]),
                  r |-> x.r]
            ELSE [s |-> apk_db_write_config(x.s), r |-> 0]
    IN  Committed(apk_db_install_pkg(s, oldpkg, newpkg, bs, env))

\* apk_pkg_read(db, file): the package the file describes, with no
\* repository bit, or NULL when the file cannot be read.  Returns [s, pkg].
apk_pkg_read(s, file) ==
    LET Info(n) ==
            [s |-> apk_pkg_add_info(
                       apk_pkg_add_info(
                           apk_pkg_add_info(n.s, n.pkg, "P", file.name).s,
                           n.pkg, "V", file.version).s,
                       n.pkg, "C", file.csum).s,
             pkg |-> n.pkg]
    IN  IF ~file.ok THEN [s |-> s, pkg |-> NULL] ELSE Info(apk_pkg_new(s))

\* Returns [s, info, idb]: info is the return value, idb what apk_db_pkg_add
\* returned inside (NULL when it was not called).
apk_db_pkg_add_file(s, file) ==
    LET Add(info, a) == [s |-> a.s, info |-> info, idb |-> a.idb]
        Got(x) == IF x.pkg = NULL
                  THEN [s |-> x.s, info |-> NULL, idb |-> NULL]
                  ELSE Add(x.pkg, apk_db_pkg_add(x.s, x.pkg))
    IN  Got(apk_pkg_read(s, file))

(***************************************************************************)
(* The inputs of the model.                                                *)
(***************************************************************************)
Line(f, v) == [f |-> f, v |-> v]
Blank == [f |-> ""]

PkgLines(name, version, csum) ==
    << Line("P", name), Line("V", version), Line("C", csum) >>

\* The installed databases a root may hold.
FdbInputs ==
    << \* 1: nothing installed
       <<>>,
       \* 2: busybox owns usr/bin/foo
       PkgLines("busybox", "1.0", 14)
         \o << Line("F", <<"usr", "bin">>), Line("M", <<0, 0, 493>>),
               Line("R", "foo"), Line("Z", 5), Blank >>,
       \* 3: foo-1.0 owns usr/bin/foo and etc/foo.conf
       PkgLines("foo", "1.0", 11)
         \o << Line("F", <<"usr", "bin">>), Line("M", <<0, 0, 493>>),
               Line("R", "foo"), Line("Z", 1),
               Line("F", <<"etc">>), Line("M", <<0, 0, 493>>),
               Line("R", "foo.conf"), Line("Z", 2), Blank >>,
       \* 4: two complete records with the same checksum
       PkgLines("foo", "1.0", 11)
         \o << Line("F", <<"etc">>), Line("M", <<0, 0, 493>>),
               Line("R", "foo.conf"), Line("Z", 2), Blank >>
         \o PkgLines("foo", "1.0", 11)
         \o << Line("F", <<"etc">>), Line("M", <<0, 0, 493>>),
               Line("R", "foo.conf"), Line("Z", 2), Blank >> >>

\* The records of the script store beside each installed database.
Script(csum, type, payload) ==
    [csum |-> csum, type |-> type, payload |-> payload]

ScriptRecords ==
    << <<>>,
       \* 2: a script of a package that is not installed, then one of busybox
       << Script(19, "POST_INSTALL", <<7>>),
          Script(14, "PRE_DEINSTALL", <<8>>) >>,
       \* 3: two scripts of foo-1.0
       << Script(11, "POST_INSTALL", <<7, 7>>),
          Script(11, "POST_DEINSTALL", <<8>>) >>,
       <<>> >>

\* The cells of a store: for every record its header and its payload.
RECURSIVE StoreOf(_)
StoreOf(recs) ==
    IF recs = <<>> THEN <<>>
    ELSE << Head(recs).csum, TypeCode(Head(recs).type),
            Len(Head(recs).payload) >>
         \o Head(recs).payload \o StoreOf(Tail(recs))

ScriptStores == [i \in DOMAIN ScriptRecords |-> StoreOf(ScriptRecords[i])]

\* The index of the repository.
RepoIndex ==
    PkgLines("foo", "1.0", 11) \o <<Blank>>
      \o PkgLines("foo", "1.1", 12) \o <<Blank>>
      \o PkgLines("bar", "1.0", 13) \o <<Blank>>
      \o PkgLines("foo", "1.2", 15) \o <<Blank>>

FileEntry(name, csum) ==
    [name |-> name, mode |-> 33188, uid |-> 0, gid |-> 0,
     csum |-> csum, size |-> 1]
DirEntry(name, mode) ==
    [name |-> name, mode |-> mode, uid |-> 0, gid |-> 0,
     csum |-> bad_checksum, size |-> 0]

\* The archive of the package with checksum 10 + i.
Archives ==
    << \* foo-1.0
       << DirEntry(<<"usr", "">>, 16877), DirEntry(<<"usr", "bin", "">>, 16877),
          FileEntry(<<"usr", "bin", "foo">>, 1),
          DirEntry(<<"etc", "">>, 16877),
          FileEntry(<<"etc", "foo.conf">>, 2) >>,
       \* foo-1.1
       << FileEntry(<<"var", "db", "apk", "foo", "1.1", "pre-upgrade">>, 7),
          FileEntry(<<"var", "db", "apk", "foo", "1.1", "post-install">>, 7),
          FileEntry(<<"usr", "bin", "foo">>, 3),
          FileEntry(<<"etc", "foo.conf">>, 4) >>,
       \* bar-1.0
       << FileEntry(<<".PKGINFO">>, 7),
          FileEntry(<<"README">>, 6),
          FileEntry(<<"usr", "bin", "foo">>, 5) >>,
       \* busybox-1.0
       << FileEntry(<<"usr", "bin", "foo">>, 5) >>,
       \* foo-1.2
       << FileEntry(<<".INSTALL">>, 7),
          FileEntry(<<"etc", ".keep_dir">>, 8),
          FileEntry(<<"etc", "foo.conf">>, 4),
          FileEntry(<<"etc", "foo.conf">>, 4) >> >>

ArchiveOf(s, pkg) == Archives[s.pkgs[pkg].csum - 10]

\* What the environment decides during one install_pkg.
EnvChoices ==
    << [fail |-> {}, bsnull |-> FALSE, csum_ok |-> TRUE, ubdir |-> <<"etc">>],
       [fail |-> {"PRE_INSTALL", "PRE_UPGRADE", "PRE_DEINSTALL"},
        bsnull |-> FALSE, csum_ok |-> TRUE, ubdir |-> <<"usr", "bin">>],
       [fail |-> {"POST_INSTALL", "POST_UPGRADE", "POST_DEINSTALL"},
        bsnull |-> FALSE, csum_ok |-> FALSE, ubdir |-> <<"?">>],
       [fail |-> {}, bsnull |-> TRUE, csum_ok |-> TRUE, ubdir |-> <<"etc">>] >>

\* The contents a local edit may leave in a file.
LocalContents == {9}

\* The root before apk_db_open: the files and directories the installed
\* database fdb names are on disk, each file with its recorded content.
RECURSIVE DiskOfFdb(_, _, _)
DiskOfFdb(fdb, i, dir) ==
    IF i > Len(fdb) THEN <<>>
    ELSE IF fdb[i].f = "F" THEN DiskOfFdb(fdb, i + 1, fdb[i].v)
    ELSE IF fdb[i].f = "R"
    THEN << [p |-> Path(dir, fdb[i].v), c |-> fdb[i + 1].v] >>
         \o DiskOfFdb(fdb, i + 1, dir)
    ELSE DiskOfFdb(fdb, i + 1, dir)

InitDisk(fdb) ==
    LET q == DiskOfFdb(fdb, 1, RootDir)
    IN  [p \in {q[i].p : i \in DOMAIN q} |->
            q[CHOOSE i \in DOMAIN q : q[i].p = p].c]

DirMeta == [mode |-> 493, uid |-> 0, gid |-> 0]

RECURSIVE Prefixes(_)
Prefixes(name) ==
    IF Len(name) = 0 THEN {name} ELSE {name} \cup Prefixes(Parent(name))

InitFsdirs(fdb) ==
    LET ds == UNION {Prefixes(fdb[i].v) : i \in {j \in DOMAIN fdb : fdb[j].f = "F"}}
    IN  [d \in ds \cup {RootDir} |-> DirMeta]

(***************************************************************************)
(* The state machine: a root is opened, then packages are installed,       *)
(* upgraded and removed while the user edits files below the root.         *)
(***************************************************************************)
NoOp ==
    [op |-> "init", old |-> NULL, new |-> NULL, r |-> 0, arg |-> 0,
     pre |-> [packages |-> 0, dirs |-> 0, files |-> 0],
     fresh |-> NULL, after |-> NULL, idb |-> NULL, isnull |-> FALSE]

\* After memset(db, 0) and the hash and list initialisers of apk_db_open; the
\* root holds one of the installed databases and the files it names.
Init ==
    \E i \in DOMAIN FdbInputs :
        /\ dirs = <<>> /\ files = <<>> /\ pkgs = <<>> /\ names = <<>>
        /\ available_packages = {} /\ installed_packages = <<>>
        /\ stats = [packages |-> 0, dirs |-> 0, files |-> 0]
        /\ pkg_id = 0 /\ num_repos = 0
        /\ repos = [r \in 1..APK_MAX_REPOS |-> ""]
        /\ protected_paths = <<>>
        /\ disk = InitDisk(FdbInputs[i])
        /\ fsdirs = InitFsdirs(FdbInputs[i])
        /\ installed_file = FdbInputs[i]
        /\ scripts_file = ScriptStores[i]
        /\ takeovers = <<>>
        /\ list_nodes = EmptyList
        /\ log = <<>>
        /\ last = [NoOp EXCEPT !.arg = i]
        /\ nops = 0

Commit(x, l) ==
    /\ dirs' = x.s.dirs /\ files' = x.s.files /\ pkgs' = x.s.pkgs
    /\ names' = x.s.names
    /\ available_packages' = x.s.available_packages
    /\ installed_packages' = x.s.installed_packages
    /\ stats' = x.s.stats /\ pkg_id' = x.s.pkg_id
    /\ num_repos' = x.s.num_repos /\ repos' = x.s.repos
    /\ protected_paths' = x.s.protected_paths
    /\ disk' = x.s.disk /\ fsdirs' = x.s.fsdirs
    /\ installed_file' = x.s.installed_file
    /\ scripts_file' = x.s.scripts_file
    /\ takeovers' = x.s.takeovers
    /\ list_nodes' = list_nodes
    /\ log' = x.s.log
    /\ last' = [l EXCEPT !.r = x.r, !.pre = stats,
                         \* the package this operation installed fresh
                         !.fresh = IF /\ l.op = "install" /\ l.old = NULL
                                      /\ \E i \in DOMAIN x.s.log :
                                             x.s.log[i].e = "installed"
                                   THEN l.new ELSE NULL,
                         \* and the one the operation before it did
                         !.after = last.fresh]

Opened ==
    /\ last.op \notin {"init", "close"}
    /\ ~(last.op = "open" /\ last.r # 0)

Open ==
    /\ last.op = "init"
    /\ \E root_ok \in BOOLEAN, world_ok \in BOOLEAN :
          Commit(apk_db_open(Db, root_ok, world_ok, "repo", RepoIndex),
                 [NoOp EXCEPT !.op = "open", !.arg = last.arg])
    /\ nops' = nops

\* The packages a caller can hold: those registered in available.packages.
Live == available_packages

InstallPkg ==
    /\ Opened /\ nops < MaxOps
    /\ \E oldpkg \in (Range(installed_packages) \cap Live) \cup {NULL},
          newpkg \in Live \cup {NULL}, e \in DOMAIN EnvChoices :
          /\ oldpkg # NULL \/ newpkg # NULL
          \* a package is installed to change its state, or over itself
          /\ IF newpkg = NULL \/ newpkg = oldpkg THEN TRUE
             ELSE pkgs[newpkg].state # "INSTALL"
          /\ Commit(apk_db_install_pkg(Db, oldpkg, newpkg,
                        IF newpkg = NULL THEN <<>> ELSE ArchiveOf(Db, newpkg),
                        EnvChoices[e]),
                    [NoOp EXCEPT !.op = "install", !.old = oldpkg,
                                 !.new = newpkg, !.arg = e])
    /\ nops' = nops + 1

\* The user changes the content of a file below the root.
UserEdit ==
    /\ Opened /\ nops < MaxOps
    /\ \E p \in DOMAIN disk, c \in LocalContents :
          /\ disk[p] # c
          /\ disk' = [disk EXCEPT ![p] = c]
    /\ last' = [NoOp EXCEPT !.op = "edit", !.pre = stats]
    /\ log' = <<>>
    /\ nops' = nops + 1
    /\ UNCHANGED <<dirs, files, pkgs, names, available_packages,
                   installed_packages, stats, pkg_id, num_repos, repos,
                   protected_paths, fsdirs, installed_file, scripts_file,
                   takeovers, list_nodes>>

Next == Open \/ InstallPkg \/ UserEdit

Spec == Init /\ [][Next]_vars

(***************************************************************************)
(* Properties.                                                             *)
(***************************************************************************)
FileIds == DOMAIN files
DirIds == DOMAIN dirs
OwnedFiles == {f \in FileIds : files[f].owner # NULL}
OwnedIn(d) == {f \in OwnedFiles : files[f].dir = d}
LiveChildren(d) == {c \in DirIds : dirs[c].parent = d /\ dirs[c].refs > 0}
PkgOf(name, version) ==
    {p \in DOMAIN pkgs : /\ pkgs[p].name # NULL
                         /\ names[pkgs[p].name].name = name
                         /\ pkgs[p].version = version}
LogHas(e) == \E i \in DOMAIN log : log[i].e = e

\* C1: every file with an owner is reached by iterating its owner's
\* owned_files and by iterating its directory's files.
C1_OwnedFilesListed ==
    \A f \in OwnedFiles :
        /\ f \in Range(hlist_for_each_entry(Db, "pkg", files[f].owner))
        /\ f \in Range(hlist_for_each_entry(Db, "dir", files[f].dir))

\* C2: the refs of every directory is the number of files in it that have
\* an owner.  A parent directory is also referenced once by each child
\* directory in use, so the property is stated where that cannot matter:
\* for every directory none of whose children has refs > 0.
C2_RefsCountFiles ==
    \A d \in DirIds :
        LiveChildren(d) = {} => dirs[d].refs = Cardinality(OwnedIn(d))

\* C3: installed.stats.files is the number of files with an owner.
C3_FilesCounter == stats.files = Cardinality(OwnedFiles)

\* Files were taken over from another package and files were purged.
C3_Witness ==
    /\ takeovers # <<>>
    /\ OwnedFiles # {}
    /\ \E f \in FileIds : files[f].owner = NULL

\* C4: installed.stats.dirs is the number of directories with refs > 0, and
\* neither it nor any refs is negative.
C4_DirsCounter ==
    /\ stats.dirs = Cardinality({d \in DirIds : dirs[d].refs > 0})
    /\ stats.dirs >= 0
    /\ \A d \in DirIds : dirs[d].refs >= 0

\* Some directories are referenced and some were released again.
C4_Witness ==
    /\ last.op = "install"
    /\ \E d \in DirIds : dirs[d].refs > 1
    /\ \E d \in DirIds : dirs[d].refs = 0

\* The file an archive entry name resolves to in the database, or NULL.
EntryFile(name) ==
    LET d == DirLookup(Db, IF Len(name) >= 2 THEN Parent(name) ELSE RootDir)
    IN  IF d = NULL THEN NULL ELSE DirFileLookup(Db, d, name[Len(name)])

PkgName(p) == names[pkgs[p].name].name

\* The paths of the regular files an archive installs.
ArchivePaths(a) ==
    {a[i].name : i \in {j \in DOMAIN a :
                          /\ ~StartsWithDot(a[j].name)
                          /\ ~IsApk1Meta(a[j].name)
                          /\ ~S_ISDIR(a[j].mode)}}

\* C5: an upgrade old -> new of the same name, where a file of old lies in
\* a protected directory, has a valid stored checksum and differs on disk
\* from it, and new carries the file: afterwards the real path holds the
\* local content, <dir>/<filename>.apk-new holds the new payload and the
\* file's checksum is the one new declares.
C5_ProtectedUpgradeDiverts ==
    [][ \A f \in FileIds : \A i \in DOMAIN Archives[2] :
          LET real == Path(dirs[files[f].dir].dirname, files[f].filename)
              alt  == AltPath(dirs[files[f].dir].dirname, files[f].filename)
              ae   == Archives[2][i]
          IN  ( /\ last'.op = "install" /\ last'.r = 0
                /\ last'.old # NULL /\ last'.new # NULL
                /\ PkgName(last'.old) = PkgName(last'.new)
                /\ pkgs[last'.new].csum = 12
                /\ files[f].owner = last'.old
                /\ dirs[files[f].dir].flags
                /\ csum_valid(files[f].csum)
                /\ real \in DOMAIN disk
                /\ disk[real] # files[f].csum
                /\ ae.name = Append(real.d, real.f) )
              => ( /\ real \in DOMAIN disk' /\ disk'[real] = disk[real]
                   /\ alt \in DOMAIN disk' /\ disk'[alt] = ae.csum
                   /\ files'[f].csum = ae.csum )
      ]_vars

\* Two records of the stream carry the same checksum.
FdbHasDuplicate(fdb) ==
    \E i, j \in DOMAIN fdb :
        i < j /\ fdb[i].f = "C" /\ fdb[j].f = "C" /\ fdb[i].v = fdb[j].v

\* C6: open of a root whose installed database holds two complete records
\* with the same checksum fails.
C6_DuplicateInstalledFatal ==
    (last.op = "open" /\ FdbHasDuplicate(FdbInputs[last.arg])) => last.r # 0

\* The state the removal scenario starts from, as a fresh install of
\* foo-1.0 leaves it: foo-1.0 is the only installed package and owns
\* usr/bin/foo and etc/foo.conf, usr/bin, usr and etc are referenced once
\* and the root twice.
OnlyFooInstalled(p) ==
    /\ p \in PkgOf("foo", "1.0")
    /\ installed_packages = <<p>>
    /\ stats = [packages |-> 1, dirs |-> 4, files |-> 2]
    /\ {<<dirs[d].dirname, dirs[d].refs>> : d \in DirIds}
         = {<<RootDir, 2>>, <<(<<"usr">>), 1>>, <<(<<"usr", "bin">>), 1>>,
            <<(<<"etc">>), 1>>}
    /\ \A f \in OwnedFiles : files[f].owner = p
    /\ {Append(dirs[files[f].dir].dirname, files[f].filename) :
            f \in OwnedFiles}
         = {<<"usr", "bin", "foo">>, <<"etc", "foo.conf">>}

RemovalEndsWith(ndirs) ==
    \A p \in DOMAIN pkgs :
        ( /\ OnlyFooInstalled(p)
          /\ last'.op = "install" /\ last'.old = p /\ last'.new = NULL )
        => ( /\ Path(<<"usr", "bin">>, "foo") \notin DOMAIN disk'
             /\ Path(<<"etc">>, "foo.conf") \notin DOMAIN disk'
             /\ stats' = [packages |-> 0, dirs |-> ndirs, files |-> 0] )

\* C7 as stated: removing the only package leaves dirs = 1, files = 0 and
\* packages = 0, and unlinks both files.
C7_RemovalLeavesRootCounted == [][RemovalEndsWith(1)]_vars

\* C7 as amended: removing the only package leaves dirs = 0 (the root is
\* released with its last child), files = 0 and packages = 0, and unlinks
\* both files.
C7_RemovalLeavesNoDirs == [][RemovalEndsWith(0)]_vars

C7_Witness ==
    /\ last.op = "install" /\ last.new = NULL
    /\ last.old \in PkgOf("foo", "1.0")
    /\ last.pre = [packages |-> 1, dirs |-> 4, files |-> 2]
    /\ stats = [packages |-> 0, dirs |-> 0, files |-> 0]
    /\ DOMAIN disk = {}
    /\ \A d \in DirIds : dirs[d].refs = 0
    /\ Cardinality({i \in DOMAIN log : log[i].e = "unlink"}) = 2

\* C8: install_pkg(nil, bar) where an entry of bar names a regular file
\* owned by a package of another name that is not busybox: the call fails,
\* bar is not in installed.packages, and the file keeps its owner, its
\* stored checksum and its content on disk.
C8_ConflictAborts ==
    [][ \A n \in DOMAIN pkgs : \A i \in DOMAIN ArchiveOf(Db, n) :
          LET a  == ArchiveOf(Db, n)
              f  == EntryFile(a[i].name)
              fp == Path(dirs[files[f].dir].dirname, files[f].filename)
          IN  ( /\ last'.op = "install" /\ last'.old = NULL /\ last'.new = n
                /\ a[i].name \in ArchivePaths(a)
                /\ f # NULL
                /\ files[f].owner # NULL
                /\ PkgName(files[f].owner) # PkgName(n)
                /\ PkgName(files[f].owner) # "busybox" )
              => ( /\ last'.r # 0
                   /\ n \notin Range(installed_packages')
                   /\ files'[f].owner = files[f].owner
                   /\ files'[f].csum = files[f].csum
                   /\ (fp \in DOMAIN disk) = (fp \in DOMAIN disk')
                   /\ fp \in DOMAIN disk => disk'[fp] = disk[fp] )
      ]_vars

C8_Witness ==
    /\ last.op = "install" /\ last.old = NULL /\ last.r = -1
    /\ LogHas("conflict")
    /\ last.new \notin Range(installed_packages)
    /\ \E i \in DOMAIN log : log[i].e = "conflict"
          /\ files[log[i].n].owner \notin {NULL, last.new}

\* C9: a package installed fresh and then installed again as an upgrade of
\* itself, by a package with the same file paths, leaves the files and dirs
\* counters as the first install left them.
C9_ReinstallKeepsCounters ==
    ( /\ last.op = "install" /\ last.after # NULL /\ last.old = last.after
      /\ last.new # NULL /\ LogHas("installed")
      /\ ArchivePaths(ArchiveOf(Db, last.new))
           = ArchivePaths(ArchiveOf(Db, last.old)) )
    => (stats.files = last.pre.files /\ stats.dirs = last.pre.dirs)

C9_Witness ==
    /\ last.op = "install" /\ last.after # NULL /\ last.old = last.after
    /\ last.new # NULL /\ last.new # last.old /\ LogHas("installed")
    /\ ArchivePaths(ArchiveOf(Db, last.new))
         = ArchivePaths(ArchiveOf(Db, last.old))
    /\ stats.files = 2 /\ LogHas("unlink")

\* The database read back from what the FDB writer writes.
EmptyDb ==
    [Db EXCEPT !.dirs = <<>>, !.files = <<>>, !.pkgs = <<>>, !.names = <<>>,
               !.available_packages = {}, !.installed_packages = <<>>,
               !.stats = [packages |-> 0, dirs |-> 0, files |-> 0],
               !.pkg_id = 0, !.takeovers = <<>>]

ReadBack == apk_db_index_read(EmptyDb, apk_db_write_fdb(Db), NoRepo).s

InstalledOf(s) ==
    {<<s.names[s.pkgs[p].name].name, s.pkgs[p].version, s.pkgs[p].csum>> :
        p \in Range(s.installed_packages)}
OwnedOf(s) ==
    {<<s.dirs[s.files[f].dir].dirname, s.files[f].filename, s.files[f].csum,
       s.pkgs[s.files[f].owner].csum>> :
        f \in {g \in DOMAIN s.files : s.files[g].owner # NULL}}
LiveDirsOf(s) ==
    {<<s.dirs[d].dirname, s.dirs[d].uid, s.dirs[d].gid, s.dirs[d].mode,
       s.dirs[d].refs>> : d \in {e \in DOMAIN s.dirs : s.dirs[e].refs > 0}}

\* C10: reading what the FDB writer writes into an empty database gives the
\* same installed packages, the same owned files, the same uid, gid, mode
\* and refs on every directory with refs > 0, and the same files and dirs
\* counters.
C10_FdbRoundTrip ==
    (Opened /\ \A p \in Range(installed_packages) : ~pkgs[p].freed)
    => /\ InstalledOf(ReadBack) = InstalledOf(Db)
       /\ OwnedOf(ReadBack) = OwnedOf(Db)
       /\ LiveDirsOf(ReadBack) = LiveDirsOf(Db)
       /\ ReadBack.stats.files = stats.files
       /\ ReadBack.stats.dirs = stats.dirs

(***************************************************************************)
(* The directory table on its own: apk_db_dir_get under any ordered list   *)
(* of protected paths, on the directory names an F line or an archive      *)
(* entry may carry.                                                        *)
(***************************************************************************)
\* Directories interned in one run.
MaxGets == 3

RuleLists ==
    << DefaultProtectedPaths,
       << Plain(<<"etc">>), Minus(<<"-etc">>, <<"etc">>) >>,
       << Minus(<<"-etc">>, <<"etc">>), Plain(<<"etc">>) >>,
       << Plain(<<"etc", "init.d">>) >>,
       << Plain(<<>>), Minus(<<"-usr">>, <<"usr">>) >> >>

DirNames ==
    { <<>>, <<"etc">>, <<"etc", "">>, <<"etc", "x">>, <<"etc", "init.d">>,
      <<"etc", "init.d", "x">>, <<"-etc", "init.d">>, <<"usr">> }

InitDirs ==
    \E i \in DOMAIN RuleLists :
        /\ dirs = <<>> /\ files = <<>> /\ pkgs = <<>> /\ names = <<>>
        /\ available_packages = {} /\ installed_packages = <<>>
        /\ stats = [packages |-> 0, dirs |-> 0, files |-> 0]
        /\ pkg_id = 0 /\ num_repos = 0
        /\ repos = [r \in 1..APK_MAX_REPOS |-> ""]
        /\ protected_paths = RuleLists[i]
        /\ disk = <<>> /\ fsdirs = InitFsdirs(<<>>)
        /\ installed_file = <<>> /\ scripts_file = <<>>
        /\ takeovers = <<>> /\ list_nodes = EmptyList /\ log = <<>>
        /\ last = [NoOp EXCEPT !.op = "rules", !.arg = i]
        /\ nops = 0

DirGet ==
    /\ nops < MaxGets
    /\ \E name \in DirNames :
          Commit([s |-> apk_db_dir_get(Db, name).s, r |-> 0],
                 [NoOp EXCEPT !.op = "dir_get"])
    /\ nops' = nops + 1

NextDirs == DirGet

SpecDirs == InitDirs /\ [][NextDirs]_vars

\* The rules whose path is the directory's full dirname: a plain entry equal
\* to it, or a '-' entry whose remainder equals it.
MatchingRules(d) ==
    {i \in DOMAIN protected_paths : protected_paths[i].rest = dirs[d].dirname}

Protected(name) ==
    \E d \in DirIds : dirs[d].dirname = name /\ dirs[d].flags

Interned(name) == \E d \in DirIds : dirs[d].dirname = name

\* C11: every directory's PROTECTED flag is what the last rule matching its
\* dirname dictates (plain sets, '-' clears), and its parent's flag (cleared
\* for the root) when no rule matches; under "etc:-etc/init.d", etc and
\* etc/x are PROTECTED, etc/init.d and etc/init.d/x are not.
C11_ProtectedByLastRule ==
    /\ \A d \in DirIds :
          LET m == MatchingRules(d)
              lastm == CHOOSE i \in m : \A j \in m : j <= i
          IN  dirs[d].flags =
                  IF m # {} THEN ~protected_paths[lastm].neg
                  ELSE IF dirs[d].parent # NULL
                  THEN dirs[dirs[d].parent].flags
                  ELSE FALSE
    /\ protected_paths = DefaultProtectedPaths =>
          /\ Interned(<<"etc">>) => Protected(<<"etc">>)
          /\ Interned(<<"etc", "x">>) => Protected(<<"etc", "x">>)
          /\ ~Protected(<<"etc", "init.d">>)
          /\ ~Protected(<<"etc", "init.d", "x">>)

(***************************************************************************)
(* The package registry on its own: a root is opened, then repositories    *)
(* are added and package files are registered.                             *)
(***************************************************************************)
\* The indexes a further repository may carry.
RepoIndexes ==
    << RepoIndex,
       PkgLines("baz", "1.0", 16) \o <<Blank>>
         \o PkgLines("foo", "1.0", 11) \o <<Blank>>,
       PkgLines("qux", "1.0", 17) \o <<Blank>>
         \o << Line("F", <<"etc">>) >>
         \o PkgLines("baz", "1.0", 16) \o <<Blank>> >>

RepoUrls == << "repo", "repo2", "repo3" >>

\* The package files a caller may name.
PkgFiles ==
    << [ok |-> TRUE, name |-> "foo", version |-> "1.0", csum |-> 11],
       [ok |-> TRUE, name |-> "baz", version |-> "1.0", csum |-> 16],
       [ok |-> FALSE, name |-> "", version |-> "", csum |-> bad_checksum] >>

\* arg is the repository, isnull that its index could not be opened.
AddRepository ==
    /\ Opened /\ nops < MaxOps
    /\ \E i \in DOMAIN RepoIndexes, isnull \in BOOLEAN :
          Commit(apk_db_add_repository(Db, RepoUrls[i], RepoIndexes[i], isnull),
                 [NoOp EXCEPT !.op = "add_repository", !.arg = i,
                              !.isnull = isnull])
    /\ nops' = nops + 1

PkgAddFile ==
    /\ Opened /\ nops < MaxOps
    /\ \E i \in DOMAIN PkgFiles :
          LET Done(x) ==
                  Commit([s |-> x.s, r |-> 0],
                         [NoOp EXCEPT !.op = "pkg_add_file", !.arg = i,
                                      !.new = x.info, !.idb = x.idb])
          IN  Done(apk_db_pkg_add_file(Db, PkgFiles[i]))
    /\ nops' = nops + 1

NextRegistry == Open \/ AddRepository \/ PkgAddFile

SpecRegistry == Init /\ [][NextRegistry]_vars

\* The checksums of the records a repository index read of is registers:
\* those terminated before the first line that is no index field.
RecordsRead(is) ==
    LET read == {j \in DOMAIN is :
                    /\ is[j].f = "C"
                    /\ \E k \in (j + 1)..Len(is) :
                          /\ is[k].f = ""
                          /\ \A m \in 1..k : is[m].f \in {"P", "V", "C", ""}}
    IN  {is[j].v : j \in read}

Registered(csum) == {p \in available_packages : pkgs[p].csum = csum}

\* How many times pkg is in the pkgs array of name n.
TimesIn(n, pkg) == Cardinality({i \in DOMAIN names[n].pkgs : names[n].pkgs[i] = pkg})

PkgsUnique ==
    /\ \A p, q \in available_packages : pkgs[p].csum = pkgs[q].csum => p = q
    /\ \A p \in available_packages : ~pkgs[p].freed
    /\ \A p \in available_packages : \A n \in DOMAIN names :
          TimesIn(n, p) = IF pkgs[p].name = n THEN 1 ELSE 0

\* One pkg_add_file step: the package file's checksum was registered as pkg
\* old, or was not (old = NULL).
PkgAddFileStep(f, old) ==
    IF old # NULL
    THEN /\ last'.idb = old /\ last'.new # old
         /\ pkgs'[last'.new].freed
         /\ available_packages' = available_packages
         /\ pkgs'[old].repos = pkgs[old].repos
         /\ names' = names
    ELSE /\ last'.idb = last'.new /\ last'.new = Len(pkgs) + 1
         /\ available_packages' = available_packages \cup {last'.new}
         /\ pkgs'[last'.new].csum = f.csum
         /\ pkgs'[last'.new].id = pkg_id /\ pkg_id' = pkg_id + 1

\* C12: available.packages holds at most one package per checksum, each
\* once in its name's pkgs array; add_pkg of a registered checksum returns
\* the registered instance with the duplicate's repos OR-ed in and frees the
\* duplicate, add_pkg of a new checksum returns the new instance.
C12_OnePackagePerChecksum ==
    [][ /\ PkgsUnique'
        /\ \A i \in DOMAIN PkgFiles :
              (last'.op = "pkg_add_file" /\ last'.arg = i /\ PkgFiles[i].ok) =>
                  \E old \in Registered(PkgFiles[i].csum) \cup {NULL} :
                      /\ (old = NULL) = (Registered(PkgFiles[i].csum) = {})
                      /\ PkgAddFileStep(PkgFiles[i], old)
        /\ \A p \in available_packages :
              /\ p \in available_packages'
              /\ pkgs[p].repos \subseteq pkgs'[p].repos
              /\ (last'.op = "add_repository" /\ ~last'.isnull
                  /\ num_repos < APK_MAX_REPOS
                  /\ pkgs[p].csum \in RecordsRead(RepoIndexes[last'.arg]))
                 => pkgs'[p].repos = pkgs[p].repos \cup {num_repos} ]_vars

\* A package file whose checksum was registered from two repositories has
\* just been collapsed onto the registered instance.
C12_Witness ==
    /\ last.op = "pkg_add_file" /\ last.idb # NULL /\ last.idb # last.new
    /\ pkgs[last.idb].repos = {0, 1}
    /\ pkgs[last.new].freed

(***************************************************************************)
(* The facade from open to close: a root is opened, transactions of one    *)
(* change are committed, and the database is closed.                       *)
(***************************************************************************)
RecalculateAndCommit ==
    /\ Opened /\ nops < MaxOps
    /\ \E oldpkg \in (Range(installed_packages) \cap Live) \cup {NULL},
          newpkg \in Live \cup {NULL}, e \in DOMAIN EnvChoices :
          /\ oldpkg # NULL \/ newpkg # NULL
          /\ IF newpkg = NULL \/ newpkg = oldpkg THEN TRUE
             ELSE pkgs[newpkg].state # "INSTALL"
          /\ Commit(apk_db_recalculate_and_commit(Db, oldpkg, newpkg,
                        IF newpkg = NULL THEN <<>> ELSE ArchiveOf(Db, newpkg),
                        EnvChoices[e]),
                    [NoOp EXCEPT !.op = "commit", !.old = oldpkg,
                                 !.new = newpkg, !.arg = e])
    /\ nops' = nops + 1

Close ==
    /\ Opened
    /\ Commit([s |-> apk_db_close(Db), r |-> 0],
              [NoOp EXCEPT !.op = "close", !.arg = last.r])
    /\ nops' = nops

NextCommit == Open \/ RecalculateAndCommit \/ Close

SpecCommit == Init /\ [][NextCommit]_vars

\* What a load of the two files under var/lib/apk builds in an empty
\* database.
Reloaded(fdb, sdb) ==
    apk_db_scriptdb_read(apk_db_index_read(EmptyDb, fdb, NoRepo).s, sdb)

ScriptsOf(s) ==
    {<<s.pkgs[p].csum, s.pkgs[p].scripts>> : p \in Range(s.installed_packages)}

\* The files under var/lib/apk after the step hold the installed packages,
\* the file ownership and the scripts the database holds before it.
Persisted ==
    /\ InstalledOf(Reloaded(installed_file', scripts_file')) = InstalledOf(Db)
    /\ OwnedOf(Reloaded(installed_file', scripts_file')) = OwnedOf(Db)
    /\ ScriptsOf(Reloaded(installed_file', scripts_file')) = ScriptsOf(Db)

\* C13: a close after a failed commit leaves var/lib/apk/installed and the
\* script store holding the installed packages, file ownership and scripts
\* of the database as it was at the close.
C13_ClosePersistsFailedInstall ==
    [][ (last.op = "commit" /\ last.r # 0 /\ last'.op = "close")
            => Persisted ]_vars

\* Package p has a script apk_pkg_run_script runs for this type.
HasScript(p, type) ==
    \E i \in DOMAIN pkgs[p].scripts :
        pkgs[p].scripts[i].type \in {TypeCode(type), TypeCode("GENERIC")}

\* The last operation removed a package whose PRE_DEINSTALL script failed.
PreDeinstallFailed ==
    /\ last.op = "install" /\ last.old # NULL /\ last.new = NULL
    /\ "PRE_DEINSTALL" \in EnvChoices[last.arg].fail

\* C14: install_pkg(old, nil) whose PRE_DEINSTALL script exits nonzero
\* returns that code and changes nothing: no unlink, no owner cleared, no
\* refs or counters moved, old still installed, POST_DEINSTALL not run.
C14_PreDeinstallFailureAborts ==
    [][ \A p \in DOMAIN pkgs :
          (PreDeinstallFailed' /\ last'.old = p /\ HasScript(p, "PRE_DEINSTALL"))
          => /\ last'.r = 1
             /\ UNCHANGED <<dirs, files, pkgs, names, stats,
                            installed_packages, available_packages, disk,
                            fsdirs>>
             /\ p \in Range(installed_packages')
             /\ \A i \in DOMAIN log' :
                   /\ log'[i].e # "unlink"
                   /\ log'[i].e = "script" => log'[i].t = "PRE_DEINSTALL" ]_vars

C14_Witness ==
    /\ PreDeinstallFailed /\ last.r = 1
    /\ last.old \in Range(installed_packages)
    /\ OwnedFiles # {}
    /\ \E i \in DOMAIN log : log[i].e = "script" /\ log[i].t = "PRE_DEINSTALL"

\* The log without its checksum warnings.
RECURSIVE NoWarnings(_)
NoWarnings(l) ==
    IF l = <<>> THEN <<>>
    ELSE IF Head(l).e = "warning" THEN NoWarnings(Tail(l))
    ELSE <<Head(l)>> \o NoWarnings(Tail(l))

\* The state after the step is the state x.s with result x.r, but for the
\* warnings logged.
SameButWarning(x) ==
    /\ x = [s |-> [Db' EXCEPT !.log = NoWarnings(log')], r |-> last'.r]
    /\ (\E i \in DOMAIN log' : log'[i].e = "installed") =>
          /\ pkgs'[last'.new].state = "INSTALL"
          /\ last'.new \in Range(installed_packages')
          /\ Cardinality({i \in DOMAIN log' : log'[i].e = "warning"}) = 1

\* C15: an install whose archive checksum differs from the declared one
\* ends in the state and with the return value of the same install with a
\* matching checksum, the package marked INSTALL; the warning is the only
\* difference.
C15_ChecksumMismatchOnlyWarns ==
    [][ (last'.op = "install" /\ last'.new # NULL
         /\ ~EnvChoices[last'.arg].csum_ok)
        => SameButWarning(
               apk_db_install_pkg(Db, last'.old, last'.new,
                                  ArchiveOf(Db, last'.new),
                                  [EnvChoices[last'.arg] EXCEPT
                                       !.csum_ok = TRUE])) ]_vars

\* foo-1.1 was installed from an archive with another checksum and its
\* post-install script exited 1.
C15_Witness ==
    /\ last.op = "install" /\ last.new # NULL /\ last.old = NULL
    /\ ~EnvChoices[last.arg].csum_ok
    /\ last.r = 1
    /\ pkgs[last.new].state = "INSTALL"
    /\ \E f \in OwnedFiles : files[f].owner = last.new
    /\ \E i \in DOMAIN log : log[i].e = "warning"

\* C16: after the script store is read, every record whose checksum is that
\* of a known package is a script of that package with the record's type,
\* size and bytes, also when a record of an unknown checksum precedes it.
C16_ScriptStoreSkipsUnknown ==
    (last.op = "open" /\ last.r = 0) =>
        \A k \in DOMAIN ScriptRecords[last.arg] :
            LET rec == ScriptRecords[last.arg][k]
            IN  \A p \in Range(installed_packages) :
                    (~pkgs[p].freed /\ pkgs[p].csum = rec.csum) =>
                        \E j \in DOMAIN pkgs[p].scripts :
                            pkgs[p].scripts[j] =
                                [type |-> TypeCode(rec.type),
                                 size |-> Len(rec.payload),
                                 script |-> rec.payload]

\* C17: at most one File exists per (dir, filename) pair, and so every
\* directory's files list holds at most one File per filename.
C17_OneFilePerName ==
    /\ \A f, g \in FileIds :
          (files[f].dir = files[g].dir /\ files[f].filename = files[g].filename)
              => f = g
    /\ \A d \in DirIds :
          LET fs == hlist_for_each_entry(Db, "dir", d)
          IN  \A i, j \in DOMAIN fs :
                  files[fs[i]].filename = files[fs[j]].filename => i = j

(***************************************************************************)
(* The index reader on its own: apk_db_index_read on one stream, read as   *)
(* the installed database or as the index of repository 0.                 *)
(***************************************************************************)
\* FDB lines after the name of a record.
MaxLines == 3

FdbLines ==
    << Line("F", <<"etc">>), Line("M", <<0, 0, 493>>), Line("R", "a"),
       Line("Z", 5), Line("X", "x") >>

\* A complete record that owns a file.
FirstRecord ==
    PkgLines("foo", "1.0", 11)
      \o << Line("F", <<"usr", "bin">>), Line("M", <<0, 0, 493>>),
            Line("R", "foo"), Line("Z", 1), Blank >>

\* The streams read: an optional complete record, then either a lone F line
\* or a named record with up to MaxLines lines of FdbLines.
LineChoices ==
    UNION {[1..k -> DOMAIN FdbLines] : k \in 0..MaxLines}

RecordOf(q) ==
    PkgLines("bar", "1.0", 13) \o [i \in DOMAIN q |-> FdbLines[q[i]]]
      \o <<Blank>>

InitReader ==
    \E first \in BOOLEAN, named \in BOOLEAN, q \in LineChoices,
       repo \in {NoRepo, 0} :
        /\ named \/ q = <<>>
        /\ dirs = <<>> /\ files = <<>> /\ pkgs = <<>> /\ names = <<>>
        /\ available_packages = {} /\ installed_packages = <<>>
        /\ stats = [packages |-> 0, dirs |-> 0, files |-> 0]
        /\ pkg_id = 0 /\ num_repos = 0
        /\ repos = [r \in 1..APK_MAX_REPOS |-> ""]
        /\ protected_paths = DefaultProtectedPaths
        /\ disk = <<>> /\ fsdirs = InitFsdirs(<<>>)
        /\ installed_file = (IF first THEN FirstRecord ELSE <<>>)
                              \o (IF named THEN RecordOf(q)
                                  ELSE << Line("F", <<"etc">>) >>)
        /\ scripts_file = <<>>
        /\ takeovers = <<>> /\ list_nodes = EmptyList /\ log = <<>>
        /\ last = [NoOp EXCEPT !.op = "stream", !.arg = repo]
        /\ nops = 0

IndexRead ==
    /\ last.op = "stream"
    /\ Commit(apk_db_index_read(Db, installed_file, last.arg),
              [NoOp EXCEPT !.op = "index_read", !.arg = last.arg])
    /\ nops' = nops + 1

NextReader == IndexRead

SpecReader == InitReader /\ [][NextReader]_vars

\* The first line of the record line i of the stream belongs to.
RecordStart(is, i) ==
    LET ends == {j \in 1..(i - 1) : is[j].f = ""}
    IN  IF ends = {} THEN 1 ELSE (CHOOSE j \in ends : \A k \in ends : k <= j) + 1

\* A line with letter f precedes line i in its record.
SeenInRecord(is, i, f) == \E j \in RecordStart(is, i)..(i - 1) : is[j].f = f

\* Line i must fail the load.
Offending(is, i, repo) ==
    \/ is[i].f \notin {"P", "V", "C", "F", "M", "R", "Z", ""}
    \/ is[i].f \in {"F", "M", "R", "Z"} /\ repo # NoRepo
    \/ is[i].f = "F" /\ ~SeenInRecord(is, i, "P")
    \/ is[i].f \in {"M", "R"} /\ ~SeenInRecord(is, i, "F")
    \/ is[i].f = "Z" /\ ~SeenInRecord(is, i, "R")

\* C18: the load fails when, within one record, F comes before the name, M
\* or R before any F, or Z before any R (every record starts with no
\* package, directory and file), when a letter is neither an index field
\* nor F, M, R or Z, and when F, M, R or Z is in a repository index.
C18_ReaderRejectsMisordered ==
    (last.op = "index_read"
     /\ \E i \in DOMAIN installed_file : Offending(installed_file, i, last.arg))
        => last.r # 0

\* One add_repository step for repository i.
AddRepositoryStep(i) ==
    IF num_repos >= APK_MAX_REPOS
    THEN /\ last'.r # 0
         /\ UNCHANGED <<num_repos, repos, pkgs, names, available_packages,
                        pkg_id>>
    ELSE /\ num_repos' = num_repos + 1
         /\ repos' = [repos EXCEPT ![num_repos + 1] = RepoUrls[i]]
         /\ last'.r = IF last'.isnull THEN -1 ELSE 0
         /\ ~last'.isnull =>
               \A c \in RecordsRead(RepoIndexes[i]) :
                   \E p \in available_packages' :
                       /\ pkgs'[p].csum = c
                       /\ num_repos \in pkgs'[p].repos

\* C19: add_repository with every slot used fails and leaves num_repos and
\* the slots as they were; otherwise it takes the slot numbered by the
\* previous num_repos, and every package read from the repository's index
\* has that bit in repos.
C19_AddRepositoryChecksFirst ==
    [][ \A i \in DOMAIN RepoIndexes :
          (last'.op = "add_repository" /\ last'.arg = i)
              => AddRepositoryStep(i) ]_vars

\* A third repository was rejected after the second one was read.
C19_Witness ==
    /\ last.op = "add_repository" /\ last.r # 0 /\ ~last.isnull
    /\ num_repos = APK_MAX_REPOS
    /\ repos[APK_MAX_REPOS] = "repo2"
    /\ \E p \in available_packages : pkgs[p].repos = {0, 1}

\* The last operation installed, into a database with nothing installed, a
\* package whose files are usr/bin/foo and etc/foo.conf.
FreshInstallOfFoo ==
    /\ last.op = "install" /\ last.old = NULL /\ last.new # NULL
    /\ last.pre = [packages |-> 0, dirs |-> 0, files |-> 0]
    /\ LogHas("installed")
    /\ ArchivePaths(ArchiveOf(Db, last.new))
         = {<<"usr", "bin", "foo">>, <<"etc", "foo.conf">>}

\* C20: a fresh install, into an empty database, of one package with the
\* files usr/bin/foo and etc/foo.conf ends with 1 package, 4 directories
\* (root, usr, usr/bin, etc, each counted once) and 2 files, etc PROTECTED
\* and usr/bin/foo on disk.
C20_FreshInstallCounts ==
    FreshInstallOfFoo =>
        /\ stats = [packages |-> 1, dirs |-> 4, files |-> 2]
        /\ Len(installed_packages) = 1
        /\ {dirs[d].dirname : d \in {e \in DirIds : dirs[e].refs > 0}}
             = {<<>>, <<"usr">>, <<"usr", "bin">>, <<"etc">>}
        /\ Protected(<<"etc">>)
        /\ DiskHas(Db, Path(<<"usr", "bin">>, "foo"))

C20_Witness ==
    /\ FreshInstallOfFoo /\ last.r = 0
    /\ installed_file = <<>>
    /\ stats.files = 2
    /\ DiskHas(Db, Path(<<"etc">>, "foo.conf"))

\* The positions of the events e, and of the runs of a script of type t, in
\* the log l of one operation.
Events(l, e) == {i \in DOMAIN l : l[i].e = e}
Scripts(l, t) == {i \in DOMAIN l : l[i].e = "script" /\ l[i].t = t}
Before(A, B) == \A i \in A, j \in B : i < j

\* The files a log reports as unlinked.
Unlinked(l) == {l[i].n : i \in Events(l, "unlink")}

\* The order of the steps of a removal of old, l being its log and owned the
\* files old owned before it.
RemovalOrdered(l, old, owned) ==
    /\ Before(Scripts(l, "PRE_DEINSTALL"), Events(l, "unlink"))
    /\ Before(Events(l, "unlink"), Scripts(l, "POST_DEINSTALL"))
    /\ \A i \in Events(l, "script") :
          l[i].t \in {"PRE_DEINSTALL", "POST_DEINSTALL"} /\ l[i].n = old
    /\ Events(l, "entry") = {}

\* The order of the steps of an install of new over old (or fresh), bs being
\* the archive and r the result.
InstallOrdered(l, old, new, bs, env, r) ==
    LET pre  == IF old = NULL THEN "PRE_INSTALL" ELSE "PRE_UPGRADE"
        post == IF old = NULL THEN "POST_INSTALL" ELSE "POST_UPGRADE"
    IN  /\ \A i \in Events(l, "script") : l[i].t \in {pre, post} /\ l[i].n = new
        /\ Before(Events(l, "unlink"), Events(l, "entry"))
        /\ Before(Scripts(l, pre), Events(l, "installed"))
        /\ Before(Events(l, "entry") \cup Events(l, "installed"),
                  Scripts(l, post))
        /\ Scripts(l, post) # {} =>
              /\ Cardinality(Events(l, "entry")) = Len(bs)
              /\ Cardinality(Events(l, "installed")) = 1
              /\ r = IF post \in env.fail THEN 1 ELSE 0

\* The files of old are all purged by the time an entry of new is processed
\* or POST_DEINSTALL runs.
PurgedFirst(l, owned) ==
    (Events(l, "entry") # {} \/ Scripts(l, "POST_DEINSTALL") # {})
        => owned \subseteq Unlinked(l)

InstallSteps(full) ==
    \A old \in DOMAIN pkgs \cup {NULL}, new \in DOMAIN pkgs \cup {NULL} :
        (last'.op = "install" /\ last'.old = old /\ last'.new = new) =>
            LET owned == {f \in FileIds : files[f].owner = old}
            IN  /\ IF new = NULL
                   THEN RemovalOrdered(log', old, owned)
                   ELSE /\ InstallOrdered(log', old, new, ArchiveOf(Db, new),
                                          EnvChoices[last'.arg], last'.r)
                        /\ Scripts(log', (IF old = NULL THEN "POST_INSTALL"
                                          ELSE "POST_UPGRADE")) # {}
                             => pkgs'[new].state = "INSTALL"
                /\ (full /\ old # NULL) => PurgedFirst(log', owned)

\* C21: in a removal PRE_DEINSTALL runs before any file of old is unlinked
\* and POST_DEINSTALL only after all of them are purged; in an upgrade no
\* deinstall script runs, old is fully purged before the first archive entry
\* of new is processed, the only script run from the archive is PRE_UPGRADE
\* (PRE_INSTALL for a fresh install), and POST_UPGRADE (POST_INSTALL) runs
\* only after every entry was processed and new was marked INSTALL, its exit
\* code being the result.
C21_InstallOrder == [][InstallSteps(TRUE)]_vars

\* The same order without the completeness of the purge: what is unlinked
\* is unlinked before the first entry and before POST_DEINSTALL.
InstallOrderOfEvents == [][InstallSteps(FALSE)]_vars

\* The install context apk_db_install_pkg starts the archive with.
StartCtx(old, new) ==
    [pkg |-> new,
     script |-> IF old = NULL THEN "PRE_INSTALL" ELSE "PRE_UPGRADE",
     dircache |-> NULL, file_dir_node |-> NoSlot, file_pkg_node |-> NoSlot]

\* The database and the context when entry i of the archive bs is handed to
\* the callback during install_pkg(old, new): old is purged and the entries
\* before i are processed.  r # 0 when the callback is never called on i.
BeforeEntry(old, new, bs, env, i) ==
    apk_parse_tar_gz(IF old # NULL THEN apk_db_purge_pkg(Db, old) ELSE Db,
                     StartCtx(old, new), SubSeq(bs, 1, i - 1), 1, env)

\* The file a path names in database s, or NULL.
FileAt(s, name) ==
    LET d == DirLookup(s, IF Len(name) >= 2 THEN Parent(name) ELSE RootDir)
    IN  IF d = NULL THEN NULL ELSE DirFileLookup(s, d, name[Len(name)])

\* What the claim says of one call of the callback on the regular-file
\* entry ae for package pkg: b is the database before it, a the database
\* after it.
EntryInstalledAsStated(b, a, pkg, ae) ==
    LET fb   == FileAt(b, ae.name)
        f    == FileAt(a, ae.name)
        dn   == a.dirs[a.files[f].dir].dirname
        real == Path(dn, a.files[f].filename)
        alt  == AltPath(dn, a.files[f].filename)
        locally_modified ==
            /\ fb # NULL
            /\ b.dirs[b.files[fb].dir].flags
            /\ csum_valid(b.files[fb].csum)
            /\ DiskHas(b, real)
            /\ b.disk[real] # b.files[fb].csum
    IN  /\ f # NULL
        /\ a.files[f].owner = pkg
        /\ IF IsKeepFile(a.files[f].filename)
           THEN a.disk = b.disk
           ELSE /\ a.files[f].csum = ae.csum
                /\ IF locally_modified
                   THEN /\ DiskHas(a, alt) /\ a.disk[alt] = ae.csum
                        /\ a.disk[real] = b.disk[real]
                   ELSE DiskHas(a, real) /\ a.disk[real] = ae.csum

\* Entry ae is a regular file the callback installs for pkg in database b:
\* neither a script nor metadata nor a directory, and not owned by a
\* package of another name.
Installable(b, pkg, ae) ==
    LET fb == FileAt(b, ae.name)
    IN  /\ EntryScriptType(b, pkg, ae.name) = "INVALID"
        /\ ~S_ISDIR(ae.mode)
        /\ \/ fb = NULL
           \/ b.files[fb].owner = NULL
           \/ b.pkgs[b.files[fb].owner].name = b.pkgs[pkg].name
           \/ b.names[b.pkgs[b.files[fb].owner].name].name = "busybox"

EntriesAsStated(old, new, bs, env) ==
    \A i \in DOMAIN bs :
        LET Checked(x) ==
                (x.r = 0 /\ Installable(x.s, new, bs[i])) =>
                    EntryInstalledAsStated(
                        x.s,
                        apk_db_install_archive_entry(x.s, x.ctx, bs[i], env).s,
                        new, bs[i])
        IN  Checked(BeforeEntry(old, new, bs, env, i))

\* C22: the callback on a regular file f that is not a .keep_ marker writes
\* the payload to <f.dir.dirname>/<f.filename>.apk-new and leaves the real
\* path as it is when f.dir is PROTECTED, f has a valid stored checksum and
\* the file on disk differs from it, and to the real path in every other
\* case; f.csum becomes the declared checksum either way.  A .keep_ file
\* gets its owner and nothing is extracted.
C22_EntryExtraction ==
    [][ \A old \in DOMAIN pkgs \cup {NULL}, new \in DOMAIN pkgs :
          ( /\ last'.op = "install" /\ last'.old = old /\ last'.new = new
            /\ ~EnvChoices[last'.arg].bsnull )
          => EntriesAsStated(old, new, ArchiveOf(Db, new),
                             EnvChoices[last'.arg]) ]_vars

\* refs of every directory is the number of its files with an owner plus
\* the number of its child directories in use.
RefsBalanced ==
    \A d \in DirIds :
        dirs[d].refs = Cardinality(OwnedIn(d)) + Cardinality(LiveChildren(d))

\* The callback on a directory entry leaves the refs of every directory of b
\* as they are and gives none to a directory it interns.
SameRefs(b, a) ==
    /\ \A d \in DOMAIN b.dirs : a.dirs[d].refs = b.dirs[d].refs
    /\ \A d \in DOMAIN a.dirs \ DOMAIN b.dirs : a.dirs[d].refs = 0

DirEntriesKeepRefs(old, new, bs, env) ==
    \A i \in DOMAIN bs :
        LET Checked(x) ==
                (x.r = 0 /\ S_ISDIR(bs[i].mode)
                 /\ EntryScriptType(x.s, new, bs[i].name) = "INVALID") =>
                    SameRefs(x.s,
                             apk_db_install_archive_entry(x.s, x.ctx, bs[i],
                                                          env).s)
        IN  Checked(BeforeEntry(old, new, bs, env, i))

\* C23: as long as no file was given an owner while it still had one, after
\* every load of the installed database, install, upgrade and removal the
\* refs of every directory is the number of its owned files plus the number
\* of its children with refs > 0; and the callback on a directory entry
\* changes no refs.
C23_RefsBalance ==
    [][ /\ takeovers' = <<>> => RefsBalanced'
        /\ \A old \in DOMAIN pkgs \cup {NULL}, new \in DOMAIN pkgs :
              ( /\ last'.op = "install" /\ last'.old = old /\ last'.new = new
                /\ ~EnvChoices[last'.arg].bsnull )
              => DirEntriesKeepRefs(old, new, ArchiveOf(Db, new),
                                    EnvChoices[last'.arg]) ]_vars

\* A package was replaced by foo-1.0, whose archive carries the directory
\* entries usr, usr/bin and etc, with no take-over so far: the files of the
\* old package were purged, and directories are referenced by files and by
\* children.
C23_Witness ==
    /\ takeovers = <<>>
    /\ last.op = "install" /\ last.old # NULL /\ LogHas("unlink")
    /\ last.new \in PkgOf("foo", "1.0") /\ LogHas("installed")
    /\ \E d \in DirIds : Cardinality(LiveChildren(d)) = 2
    /\ \E d \in DirIds : OwnedIn(d) # {} /\ dirs[d].refs = 1

\* C24: the package pkg_add_file returns is the live instance registered in
\* available.packages under its checksum, also when a package with that
\* checksum was registered before the call.
C24_AddFileReturnsRegistered ==
    (last.op = "pkg_add_file" /\ last.new # NULL) =>
        /\ last.new \in available_packages
        /\ ~pkgs[last.new].freed
        /\ Registered(pkgs[last.new].csum) = {last.new}

(***************************************************************************)
(* The list of apk_defines.h on its own: nodes are added to the head or    *)
(* the tail of installed.packages and deleted from it.  A node is added    *)
(* only while it is not in the list and deleted only while it is, as the   *)
(* state changes of a package do.                                          *)
(***************************************************************************)
InitList ==
    /\ dirs = <<>> /\ files = <<>> /\ pkgs = <<>> /\ names = <<>>
    /\ available_packages = {} /\ installed_packages = <<>>
    /\ stats = [packages |-> 0, dirs |-> 0, files |-> 0]
    /\ pkg_id = 0 /\ num_repos = 0
    /\ repos = [r \in 1..APK_MAX_REPOS |-> ""]
    /\ protected_paths = <<>>
    /\ disk = <<>> /\ fsdirs = InitFsdirs(<<>>)
    /\ installed_file = <<>> /\ scripts_file = <<>>
    /\ takeovers = <<>> /\ list_nodes = EmptyList /\ log = <<>>
    /\ last = [NoOp EXCEPT !.op = "list_init"]
    /\ nops = 0

\* The nodes linked into installed.packages.
Linked == Range(list_for_each(list_nodes, PackagesHead))

ListStep(l, op, n) ==
    /\ list_nodes' = l
    /\ last' = [NoOp EXCEPT !.op = op, !.arg = n]
    /\ UNCHANGED <<dirs, files, pkgs, names, available_packages,
                   installed_packages, stats, pkg_id, num_repos, repos,
                   protected_paths, disk, fsdirs, installed_file,
                   scripts_file, takeovers, log, nops>>

ListAdd ==
    \E n \in ListNodes \ Linked :
        ListStep(list_add(list_nodes, n, PackagesHead), "list_add", n)

ListAddTail ==
    \E n \in ListNodes \ Linked :
        ListStep(list_add_tail(list_nodes, n, PackagesHead),
                 "list_add_tail", n)

ListDel ==
    \E n \in Linked :
        ListStep(list_del(list_nodes, n), "list_del", n)

NextList == ListAdd \/ ListAddTail \/ ListDel

SpecList == InitList /\ [][NextList]_vars

\* C25: list_hashed(n) is true exactly when n is linked into the list: true
\* after list_add or list_add_tail, also for the only node of the list,
\* false for a zero-initialised node never added and false after
\* list_del(n).
C25_HashedIffLinked ==
    \A n \in ListNodes : list_hashed(list_nodes, n) <=> n \in Linked
====
